---- MODULE Spec2Model ----
(***************************************************************************)
(* Model of the event listener of pancakeswap-sdk (src/src/events.rs):     *)
(* the start_listener / stop_listener calls, the background polling task   *)
(* spawned by start_listener, poll_events, and the Swap callback wrapper   *)
(* of start_swap_listener with the decoder parse_swap_log (src/src/tool.rs)*)
(***************************************************************************)
EXTENDS Integers, Naturals, Sequences, FiniteSets, TLC

\* ---------------------------------------------------------------- bounds
\* Highest block the modelled chain grows to.
MaxHeight == 3
\* Number of background tasks start_listener may spawn in one behaviour.
MaxTasks == 2
\* Number of concurrent callers of start_listener.
NumCallers == 2
\* Modulus standing for 2^64: block numbers are u64 in the source.
U64Mod == 8

\* Configurations (EventListenerConfig) the listener is created with.
Configs == { [confirmation_blocks |-> 1, max_blocks_per_poll |-> 2],
             [confirmation_blocks |-> 2, max_blocks_per_poll |-> 1] }

Callers == 1..NumCallers
TaskIds == 1..MaxTasks

\* ------------------------------------------------------- u64 arithmetic
\* a + b and a - b on u64: the wrapped value, and whether the exact result
\* leaves the type (a panic when the build checks overflow, a wrap when not).
U64Add(a, b) == (a + b) % U64Mod
AddOverflows(a, b) == a + b >= U64Mod
U64Sub(a, b) == ((a - b) + U64Mod) % U64Mod
SubOverflows(a, b) == a < b
Min(a, b) == IF a <= b THEN a ELSE b

\* ------------------------------------------------------------ the chain
\* A log as the decoder sees it: number of topics and length of the data.
Log(b, i, nt, dl) == [blk |-> b, idx |-> i, topics |-> nt, dlen |-> dl]

\* The logs block b holds for the subscribed addresses and event signature.
LogsOfBlock(b) ==
    CASE b % 3 = 0 -> << >>
      [] b % 3 = 1 -> << Log(b, 1, 3, 192), Log(b, 2, 3, 128) >>
      [] OTHER     -> << Log(b, 1, 2, 192), Log(b, 2, 3, 192), Log(b, 3, 3, 64) >>

RECURSIVE LogsInRange(_, _, _)
\* provider.get_logs for the window [from, to] on a chain of height h: the
\* logs of the existing blocks of the window, in block order.
LogsInRange(from, to, h) ==
    IF from > to \/ from > h THEN << >>
    ELSE LogsOfBlock(from) \o LogsInRange(from + 1, to, h)

\* ---------------------------------------------------------- the decoder
\* event_parsers::parse_swap_log: Ok or Err by topic count and data length.
parse_swap_log(log) ==
    IF log.topics < 3 THEN [ok |-> FALSE, err |-> "insufficient topics"]
    ELSE IF log.dlen < 192 THEN [ok |-> FALSE, err |-> "insufficient data"]
    ELSE [ok |-> TRUE, err |-> ""]

\* The closure start_swap_listener hands to start_listener as on_event:
\* the consumer callback on_swap runs only for a log that decodes.
SwapOnEvent(consumed, log) ==
    IF parse_swap_log(log).ok THEN Append(consumed, log) ELSE consumed

RECURSIVE DispatchLogs(_, _, _)
\* `for log in logs { on_event(log) }`: the logs handed to on_event and the
\* ones that reached the consumer callback, both in call order.
DispatchLogs(logs, dispatched, consumed) ==
    IF logs = << >> THEN [dispatched |-> dispatched, consumed |-> consumed]
    ELSE DispatchLogs(Tail(logs), Append(dispatched, Head(logs)),
                      SwapOnEvent(consumed, Head(logs)))

\* ---------------------------------------------------------------- state
VARIABLES
    config,             \* EventListenerConfig of the listener
    overflow_checks,    \* the build panics on u64 overflow (TRUE) or wraps
    height,             \* height of the chain behind the provider
    last_block_number,  \* EventListenerState.last_block_number
    is_running,         \* EventListenerState.is_running
    callers,            \* the start_listener calls in progress; after_stop
                        \* marks a call made after the latest stop_listener
    start_result,       \* what the latest start_listener call returned
    tasks,              \* the background tasks spawned so far
    covered,            \* blocks of every window fetched and dispatched
    cursor,             \* checkpoint stored by the latest start, -1 if none
    stopped_at,         \* checkpoint at the latest stop_listener of a started
                        \* listener with no start in progress, -1 if none
    restarted,          \* a start has completed since the latest stop
    arg,                \* input handed to the pure functions of the crate
    ret,                \* the latest call of a pure function and its result
    price_history,      \* AnalyticsService/PriceService.price_history
    recorded,           \* per token, the record_price_history calls made
    pool_tasks,         \* the tasks spawned by FarmingService::get_pools_info
    gather,             \* the position of the get_pools_info call itself
    now,                \* the system clock, in ticks since the UNIX epoch
    pending_orders,     \* LimitOrderService.pending_orders
    cache,              \* PriceCache.cache
    ttl,                \* PriceCache.ttl
    latest_set          \* per pair, price and tick of the latest PriceCache.set

listener_vars == << config, overflow_checks, height, last_block_number,
                    is_running, callers, start_result, tasks, covered, cursor,
                    stopped_at, restarted >>

vars == << config, overflow_checks, height, last_block_number, is_running,
           callers, start_result, tasks, covered, cursor, stopped_at, restarted,
           arg, ret, price_history, recorded, pool_tasks, gather, now,
           pending_orders, cache, ttl, latest_set >>

\* The fields of the services that keep state between calls.
history_vars == << price_history, recorded >>
farm_vars == << pool_tasks, gather >>
order_vars == << pending_orders >>
cache_vars == << cache, ttl, latest_set >>
service_vars == << history_vars, farm_vars, order_vars, cache_vars, now >>

\* The state in which no such service has been constructed.
HistoryAbsent ==
    /\ price_history = << >>
    /\ recorded = << >>

FarmAbsent ==
    /\ pool_tasks = << >>
    /\ gather = << >>

OrdersAbsent ==
    /\ pending_orders = << >>

CacheAbsent ==
    /\ cache = << >>
    /\ ttl = 0
    /\ latest_set = << >>

\* No service reads the clock.
ClockAbsent ==
    /\ now = 0

ServicesAbsent ==
    /\ HistoryAbsent
    /\ FarmAbsent
    /\ OrdersAbsent
    /\ CacheAbsent
    /\ ClockAbsent

\* No pure function has been called: the listener runs on its own.
NoCall == [fn |-> "none"]

IdleCaller == [pc |-> "idle", cur |-> 0, after_stop |-> FALSE]

\* The task of events.rs 245-259 as spawned: about to test the loop condition.
NewTask == [pc |-> "check", from |-> 0, to |-> 0, cur |-> 0,
            got |-> << >>, dispatched |-> << >>, consumed |-> << >>,
            outcome |-> "none", prev_from |-> 0]

Alive(t) == tasks[t].pc \notin {"done", "panicked"}
AliveTasks == {t \in 1..Len(tasks) : Alive(t)}
StartsInFlight == {c \in Callers : callers[c].pc # "idle"}

Init ==
    /\ config \in Configs
    /\ overflow_checks \in BOOLEAN
    /\ height = 0
    /\ last_block_number = 0
    /\ is_running = FALSE
    /\ callers = [c \in Callers |-> IdleCaller]
    /\ start_result = "none"
    /\ tasks = << >>
    /\ covered = {}
    /\ cursor = -1
    /\ stopped_at = -1
    /\ restarted = FALSE
    /\ arg = << >>
    /\ ret = NoCall
    /\ ServicesAbsent

\* ------------------------------------------------------------ the chain
\* A new block is appended; the height never decreases.
HeightAdvance ==
    /\ height < MaxHeight
    /\ height' = height + 1
    /\ UNCHANGED << arg, ret, service_vars, config, overflow_checks,
                    last_block_number, is_running,
                    callers, start_result, tasks, covered, cursor, stopped_at,
                    restarted >>

\* ------------------------------------------------------- start_listener
\* start_listener without the is_running test of events.rs 226.
StartLoadUnguarded(c) ==
    /\ callers[c].pc = "idle"
    /\ \A d \in Callers : d < c => callers[d].pc # "idle"
    /\ Len(tasks) + Cardinality(StartsInFlight) < MaxTasks
    /\ callers' = [callers EXCEPT ![c].pc = "store"]
    /\ UNCHANGED << arg, ret, service_vars, config, overflow_checks,
                    height, last_block_number,
                    is_running, start_result, tasks, covered, cursor,
                    stopped_at, restarted >>

\* events.rs 226-230: load is_running; when set, return ListenerError.
\* The callers are interchangeable: a call is made by the first idle one.
StartLoad(c) ==
    /\ callers[c].pc = "idle"
    /\ \A d \in Callers : d < c => callers[d].pc # "idle"
    /\ IF is_running
       THEN /\ start_result' = "already_running"
            /\ UNCHANGED callers
       ELSE /\ Len(tasks) + Cardinality(StartsInFlight) < MaxTasks
            /\ callers' = [callers EXCEPT ![c].pc = "store",
                                          ![c].after_stop = (stopped_at # -1)]
            /\ UNCHANGED start_result
    /\ UNCHANGED << arg, ret, service_vars, config, overflow_checks,
                    height, last_block_number,
                    is_running, tasks, covered, cursor, stopped_at, restarted >>

\* events.rs 231-236: store is_running = true, then await get_block_number.
StartStoreRunning(c) ==
    /\ callers[c].pc = "store"
    /\ is_running' = TRUE
    /\ callers' = [callers EXCEPT ![c].pc = "height"]
    /\ UNCHANGED << arg, ret, service_vars, config, overflow_checks,
                    height, last_block_number,
                    start_result, tasks, covered, cursor, stopped_at,
                    restarted >>

\* events.rs 235-238: get_block_number returns the height.
StartHeightOk(c) ==
    /\ callers[c].pc = "height"
    /\ callers' = [callers EXCEPT ![c].pc = "spawn", ![c].cur = height]
    /\ UNCHANGED << arg, ret, service_vars, config, overflow_checks,
                    height, last_block_number,
                    is_running, start_result, tasks, covered, cursor,
                    stopped_at, restarted >>

\* events.rs 235-238: get_block_number fails and `?` returns ProviderError.
StartHeightErr(c) ==
    /\ callers[c].pc = "height"
    /\ callers' = [callers EXCEPT ![c] = IdleCaller]
    /\ start_result' = "provider_error"
    /\ UNCHANGED << arg, ret, service_vars, config, overflow_checks,
                    height, last_block_number,
                    is_running, tasks, covered, cursor, stopped_at, restarted >>

\* events.rs 240-261: store the cursor current_block - confirmation_blocks,
\* spawn the polling task, return Ok.  The subtraction panics in a build
\* that checks overflow and wraps in one that does not.
StartSpawn(c) ==
    /\ callers[c].pc = "spawn"
    /\ IF SubOverflows(callers[c].cur, config.confirmation_blocks) /\ overflow_checks
       THEN /\ start_result' = "panic"
            /\ UNCHANGED << last_block_number, tasks, cursor, restarted >>
       ELSE /\ last_block_number' = U64Sub(callers[c].cur, config.confirmation_blocks)
            /\ cursor' = U64Sub(callers[c].cur, config.confirmation_blocks)
            /\ tasks' = Append(tasks, NewTask)
            /\ restarted' = callers[c].after_stop
            /\ start_result' = "ok"
    /\ callers' = [callers EXCEPT ![c] = IdleCaller]
    /\ UNCHANGED << arg, ret, service_vars, config, overflow_checks,
                    height, is_running, covered,
                    stopped_at >>

\* -------------------------------------------------------- stop_listener
\* events.rs 265-267: store is_running = false.
stop_listener ==
    /\ is_running' = FALSE
    /\ IF is_running /\ cursor # -1 /\ StartsInFlight = {}
       THEN /\ stopped_at' = last_block_number
            /\ restarted' = FALSE
            /\ callers' = [c \in Callers |->
                              [callers[c] EXCEPT !.after_stop = FALSE]]
       ELSE UNCHANGED << stopped_at, restarted, callers >>
    /\ UNCHANGED << arg, ret, service_vars, config, overflow_checks,
                    height, last_block_number,
                    start_result, tasks, covered, cursor >>

\* ---------------------------------------------------- the polling task
TaskVarsUnchanged ==
    UNCHANGED << arg, ret, service_vars, config, overflow_checks,
                    height, is_running, callers,
                 start_result, cursor, stopped_at, restarted >>

\* The task's record once poll_events has returned and interval.tick() has
\* completed (events.rs 250-257): the locals of the poll are gone.
AfterPoll(task, outcome) ==
    [NewTask EXCEPT !.outcome = outcome,
                    !.prev_from = IF outcome = "error" THEN task.from ELSE 0]

\* The loop of events.rs 249 entering poll_events whatever is_running holds.
LoopCheckIgnoresStop(t) ==
    /\ t <= Len(tasks)
    /\ tasks[t].pc = "check"
    /\ tasks' = [tasks EXCEPT ![t].pc = "load"]
    /\ UNCHANGED << last_block_number, covered >>
    /\ TaskVarsUnchanged

\* events.rs 249: the loop condition loads is_running; the task ends when
\* it reads false and enters poll_events when it reads true.
LoopCheck(t) ==
    /\ t <= Len(tasks)
    /\ tasks[t].pc = "check"
    /\ IF is_running
       THEN tasks' = [tasks EXCEPT ![t].pc = "load"]
       ELSE tasks' = [tasks EXCEPT ![t] = [NewTask EXCEPT !.pc = "done"]]
    /\ UNCHANGED << last_block_number, covered >>
    /\ TaskVarsUnchanged

\* events.rs 278-279: from_block = last_block_number + 1, then await
\* get_block_number.
PollLoad(t) ==
    /\ t <= Len(tasks)
    /\ tasks[t].pc = "load"
    /\ IF AddOverflows(last_block_number, 1) /\ overflow_checks
       THEN tasks' = [tasks EXCEPT ![t] = [NewTask EXCEPT !.pc = "panicked"]]
       ELSE tasks' = [tasks EXCEPT ![t].pc = "height",
                                   ![t].from = U64Add(last_block_number, 1),
                                   ![t].outcome = "none",
                                   ![t].prev_from = 0]
    /\ UNCHANGED << last_block_number, covered >>
    /\ TaskVarsUnchanged

\* events.rs 284-287: min(current_block - confirmation_blocks,
\*                        from_block + max_blocks_per_poll - 1).
ToBlock(from, cur) ==
    Min(U64Sub(cur, config.confirmation_blocks),
        U64Sub(U64Add(from, config.max_blocks_per_poll), 1))

\* The u64 operations of events.rs 285-286 that leave the type.
WindowOverflows(from, cur) ==
    \/ SubOverflows(cur, config.confirmation_blocks)
    \/ AddOverflows(from, config.max_blocks_per_poll)
    \/ SubOverflows(U64Add(from, config.max_blocks_per_poll), 1)

\* poll_events with the test of events.rs 289 off by one: a window that
\* ends one block before from_block is fetched.
PollHeightOkLateReturn(t) ==
    /\ t <= Len(tasks)
    /\ tasks[t].pc = "height"
    /\ LET from == tasks[t].from
           to   == ToBlock(from, height)
       IN IF WindowOverflows(from, height) /\ overflow_checks
          THEN tasks' = [tasks EXCEPT ![t] = [NewTask EXCEPT !.pc = "panicked"]]
          ELSE IF from > to + 1
          THEN tasks' = [tasks EXCEPT ![t] = AfterPoll(tasks[t], "noop")]
          ELSE tasks' = [tasks EXCEPT ![t].pc = "logs",
                                      ![t].cur = height,
                                      ![t].to = to]
    /\ UNCHANGED << last_block_number, covered >>
    /\ TaskVarsUnchanged

\* events.rs 279-297: get_block_number returns; compute to_block; return
\* Ok(()) when from_block > to_block, otherwise await get_logs.
PollHeightOk(t) ==
    /\ t <= Len(tasks)
    /\ tasks[t].pc = "height"
    /\ LET from == tasks[t].from
           to   == ToBlock(from, height)
       IN IF WindowOverflows(from, height) /\ overflow_checks
          THEN tasks' = [tasks EXCEPT ![t] = [NewTask EXCEPT !.pc = "panicked"]]
          ELSE IF from > to
          THEN tasks' = [tasks EXCEPT ![t] = AfterPoll(tasks[t], "noop")]
          ELSE tasks' = [tasks EXCEPT ![t].pc = "logs",
                                      ![t].cur = height,
                                      ![t].to = to]
    /\ UNCHANGED << last_block_number, covered >>
    /\ TaskVarsUnchanged

\* events.rs 279-282: get_block_number fails; poll_events returns the error
\* and the loop prints it (events.rs 250-255).
PollHeightErr(t) ==
    /\ t <= Len(tasks)
    /\ tasks[t].pc = "height"
    /\ tasks' = [tasks EXCEPT ![t] = AfterPoll(tasks[t], "error")]
    /\ UNCHANGED << last_block_number, covered >>
    /\ TaskVarsUnchanged

\* events.rs 299-307: get_logs returns the logs of the window and each is
\* passed to on_event.
PollLogsOk(t) ==
    /\ t <= Len(tasks)
    /\ tasks[t].pc = "logs"
    /\ LET logs == LogsInRange(tasks[t].from, tasks[t].to, height)
           d    == DispatchLogs(logs, << >>, << >>)
       IN tasks' = [tasks EXCEPT ![t].pc = "store",
                                 ![t].got = logs,
                                 ![t].dispatched = d.dispatched,
                                 ![t].consumed = d.consumed]
    /\ UNCHANGED << last_block_number, covered >>
    /\ TaskVarsUnchanged

\* poll_events storing to_block although get_logs failed.
PollLogsErrAdvances(t) ==
    /\ t <= Len(tasks)
    /\ tasks[t].pc = "logs"
    /\ tasks' = [tasks EXCEPT ![t] = AfterPoll(tasks[t], "error")]
    /\ last_block_number' = tasks[t].to
    /\ UNCHANGED covered
    /\ TaskVarsUnchanged

\* events.rs 299-303: get_logs fails; poll_events returns the error.
PollLogsErr(t) ==
    /\ t <= Len(tasks)
    /\ tasks[t].pc = "logs"
    /\ tasks' = [tasks EXCEPT ![t] = AfterPoll(tasks[t], "error")]
    /\ UNCHANGED << last_block_number, covered >>
    /\ TaskVarsUnchanged

\* A log of the window that parse_swap_log rejects.
HasUndecodable(logs) == \E i \in 1..Len(logs) : ~parse_swap_log(logs[i]).ok

\* poll_events keeping the checkpoint when a log of the window did not decode.
PollStoreUnlessDecodeError(t) ==
    /\ t <= Len(tasks)
    /\ tasks[t].pc = "store"
    /\ last_block_number' = IF HasUndecodable(tasks[t].got)
                            THEN last_block_number ELSE tasks[t].to
    /\ covered' = covered \cup (tasks[t].from .. tasks[t].to)
    /\ tasks' = [tasks EXCEPT ![t] = AfterPoll(tasks[t], "ok")]
    /\ TaskVarsUnchanged

\* events.rs 309-311: store last_block_number = to_block, return Ok(()).
PollStore(t) ==
    /\ t <= Len(tasks)
    /\ tasks[t].pc = "store"
    /\ last_block_number' = tasks[t].to
    /\ covered' = covered \cup (tasks[t].from .. tasks[t].to)
    /\ tasks' = [tasks EXCEPT ![t] = AfterPoll(tasks[t], "ok")]
    /\ TaskVarsUnchanged

\* ------------------------------------------------------ specification
Next ==
    \/ HeightAdvance
    \/ \E c \in Callers : StartLoad(c)
    \/ \E c \in Callers : StartStoreRunning(c)
    \/ \E c \in Callers : StartHeightOk(c)
    \/ \E c \in Callers : StartHeightErr(c)
    \/ \E c \in Callers : StartSpawn(c)
    \/ stop_listener
    \/ \E t \in TaskIds : LoopCheck(t)
    \/ \E t \in TaskIds : PollLoad(t)
    \/ \E t \in TaskIds : PollHeightOk(t)
    \/ \E t \in TaskIds : PollHeightErr(t)
    \/ \E t \in TaskIds : PollLogsOk(t)
    \/ \E t \in TaskIds : PollLogsErr(t)
    \/ \E t \in TaskIds : PollStore(t)

Spec == Init /\ [][Next]_vars

TypeOK ==
    /\ height \in 0..MaxHeight
    /\ last_block_number \in 0..(U64Mod - 1)
    /\ is_running \in BOOLEAN
    /\ Len(tasks) <= MaxTasks

\* =============================================================== claims
Tasks == 1..Len(tasks)

\* Task t takes the step that ends poll_events at events.rs 309-311.
Stores(t) == tasks[t].pc = "store" /\ tasks'[t].pc # "store"

\* C1: for one listener, at most one background polling task is alive in
\* every reachable state, under any interleaving of start, stop_listener
\* and the steps of the loop.
C1_AtMostOneTask == Cardinality(AliveTasks) <= 1

\* C2: start_listener called while is_running is true returns the
\* "already running" error and has no side effect: a call goes on past the
\* test of the flag only when it read false, and the step that returns the
\* error leaves the checkpoint, the flag, the calls in progress (none is
\* made to read the chain height) and the spawned tasks as they were.
C2_StartWhileRunning ==
    [][ /\ \A c \in Callers :
              (callers[c].pc = "idle" /\ callers'[c].pc # "idle") => ~is_running
        /\ (start_result' = "already_running" /\ start_result # "already_running")
              => /\ is_running
                 /\ UNCHANGED << last_block_number, is_running, callers,
                                 tasks, height, covered, cursor >> ]_vars

\* A start_listener call has just been refused on a running listener.
C2_Witness ==
    /\ start_result = "already_running"
    /\ is_running
    /\ AliveTasks # {}

\* C3: with a chain height that never decreases, last_block_number never
\* decreases over the lifetime of the listener.  Stated for the build that
\* checks overflow, in which no block number is a wrapped value.
C3_CheckpointMonotone ==
    [][ overflow_checks => last_block_number' >= last_block_number ]_vars

\* C4: stopping at checkpoint C and starting again skips no block: after
\* the restart every block b with C < b <= checkpoint lies in a window
\* whose logs were fetched and dispatched.  Stated for the build that
\* checks overflow, in which no block number is a wrapped value.
C4_RestartSkipsNoBlock ==
    (overflow_checks /\ restarted) =>
        \A b \in (stopped_at + 1)..last_block_number : b \in covered

\* C5: within a running session every block b with cursor set by start
\* < b <= checkpoint lies in a window that was fetched with success, and a
\* poll passes all the logs it fetched to on_event, in the order returned,
\* before it advances the checkpoint.  The coverage is stated for the
\* build that checks overflow, in which no block number is a wrapped value.
C5_SessionCoverage ==
    /\ (overflow_checks /\ cursor # -1) =>
          \A b \in (cursor + 1)..last_block_number : b \in covered
    /\ \A t \in Tasks :
          tasks[t].pc = "store" => tasks[t].dispatched = tasks[t].got

\* C6: a poll that advances the checkpoint stores at most (the height that
\* poll read) - confirmation_blocks: no block less than confirmation_blocks
\* behind the tip is recorded as processed.
C6_ConfirmationLag ==
    [][ \A t \in Tasks :
           Stores(t) =>
               last_block_number' + config.confirmation_blocks <= tasks[t].cur
      ]_vars

\* C7: a poll whose height read or log fetch fails leaves the checkpoint
\* unchanged and dispatches nothing, the loop goes on to its next condition
\* test, and the next poll of the task computes from = checkpoint + 1, the
\* same from when the checkpoint is still the one the failed poll read.
C7_FailedPoll ==
    [][ \A t \in Tasks :
          /\ (tasks[t].pc \in {"height", "logs"} /\ tasks'[t].outcome = "error"
                 /\ tasks'[t].pc # tasks[t].pc)
                => /\ last_block_number' = last_block_number
                   /\ covered' = covered
                   /\ tasks'[t].dispatched = << >>
                   /\ tasks'[t].consumed = << >>
                   /\ tasks'[t].pc = "check"
                   /\ tasks'[t].prev_from = tasks[t].from
          /\ (tasks[t].pc = "load" /\ tasks[t].outcome = "error"
                 /\ tasks'[t].pc = "height")
                => /\ tasks'[t].from = U64Add(last_block_number, 1)
                   /\ (U64Add(last_block_number, 1) = tasks[t].prev_from
                          => tasks'[t].from = tasks[t].prev_from)
      ]_vars

\* A poll has failed, the loop has found is_running set and is entering
\* the next poll, whose from will be the from of the failed one.
C7_Witness ==
    \E t \in Tasks :
        /\ tasks[t].pc = "load"
        /\ tasks[t].outcome = "error"
        /\ U64Add(last_block_number, 1) = tasks[t].prev_from

\* C8 as stated: a poll in which a fetched log fails to decode does not
\* advance the checkpoint.
C8_DecodeErrorKeepsCheckpoint ==
    [][ \A t \in Tasks :
           (Stores(t) /\ HasUndecodable(tasks[t].got))
               => last_block_number' = last_block_number ]_vars

\* C8 amended: a poll in which a fetched log fails to decode still stores
\* its to_block as the checkpoint; the window is not retried.
C8_DecodeErrorStillAdvances ==
    [][ \A t \in Tasks :
           (Stores(t) /\ HasUndecodable(tasks[t].got))
               => last_block_number' = tasks[t].to ]_vars

\* A poll has dispatched a window holding a log that did not decode, and it
\* is about to move the checkpoint forward to its to_block.
C8_Witness ==
    \E t \in Tasks :
        /\ tasks[t].pc = "store"
        /\ HasUndecodable(tasks[t].got)
        /\ tasks[t].to > last_block_number

\* A Swap log that meets the event's layout: sender and to topics after
\* topic0 and four 32-byte words of data.
SwapWellFormed(log) == log.topics >= 3 /\ log.dlen >= 4 * 32

\* C9: when a log of a window is malformed only that log is dropped: the
\* consumer callback runs for every well-formed log of the window, in
\* order, and for no other.
C9_OnlyMalformedDropped ==
    \A t \in Tasks :
        tasks[t].pc = "store" =>
            tasks[t].consumed = SelectSeq(tasks[t].got, SwapWellFormed)

\* C10: a poll whose from_block exceeds its to_block fetches no logs,
\* dispatches nothing and leaves the checkpoint unchanged.
C10_NoOpPoll ==
    [][ \A t \in Tasks :
           (/\ tasks[t].pc = "height"
            /\ tasks'[t].pc \notin {"height", "panicked"}
            /\ tasks'[t].outcome # "error"
            /\ tasks[t].from > ToBlock(tasks[t].from, height))
               => /\ tasks'[t].pc = "check"
                  /\ tasks'[t].outcome = "noop"
                  /\ tasks'[t].got = << >>
                  /\ tasks'[t].dispatched = << >>
                  /\ last_block_number' = last_block_number
                  /\ covered' = covered ]_vars

\* A poll has returned without fetching while the checkpoint stands at
\* height - confirmation_blocks (height 100, confirmation 1, checkpoint 99
\* at the model's scale).
C10_Witness ==
    \E t \in Tasks :
        /\ tasks[t].pc = "check"
        /\ tasks[t].outcome = "noop"
        /\ height >= config.confirmation_blocks
        /\ last_block_number = height - config.confirmation_blocks

\* ------------------------------------------------- fair scheduling (C11)
\* One step of the polling task t, whichever it is: the loop condition, a
\* synchronous stretch of poll_events, or the return (Ok or Err) of the
\* network call the task is awaiting.
TaskStep(t) ==
    \/ LoopCheck(t)
    \/ PollLoad(t)
    \/ PollHeightOk(t)
    \/ PollHeightErr(t)
    \/ PollLogsOk(t)
    \/ PollLogsErr(t)
    \/ PollStore(t)

\* The runtime schedules every spawned task again and again, and every
\* network call in flight returns.
TaskFairness == \A t \in TaskIds : WF_vars(TaskStep(t))

\* The listener is constructed on a chain that already holds MaxHeight - 1
\* blocks, at least confirmation_blocks of every configuration.
InitFair ==
    /\ config \in Configs
    /\ overflow_checks \in BOOLEAN
    /\ height = MaxHeight - 1
    /\ last_block_number = 0
    /\ is_running = FALSE
    /\ callers = [c \in Callers |-> IdleCaller]
    /\ start_result = "none"
    /\ tasks = << >>
    /\ covered = {}
    /\ cursor = -1
    /\ stopped_at = -1
    /\ restarted = FALSE
    /\ arg = << >>
    /\ ret = NoCall
    /\ ServicesAbsent

SpecFair == InitFair /\ [][Next]_vars /\ TaskFairness

\* C11: when from some point on the listener is stopped and no
\* start_listener call is in progress or follows, every background polling
\* task eventually terminates, for good;
\* and a task whose loop condition has read is_running = false has ended:
\* it begins no new poll.
C11_StopTerminates ==
    /\ ( <>[](~is_running /\ StartsInFlight = {}) => <>[](AliveTasks = {}) )
    /\ [][ \A t \in Tasks :
             /\ (tasks[t].pc = "check" /\ ~is_running) => tasks'[t].pc \in {"check", "done"}
             /\ tasks[t].pc = "done" => tasks'[t].pc = "done" ]_vars

\* A listener that was started and polled has been stopped, no start is in
\* progress, and its task has ended at the loop condition.
C11_Witness ==
    /\ ~is_running
    /\ StartsInFlight = {}
    /\ stopped_at # -1
    /\ covered # {}
    /\ Len(tasks) >= 1
    /\ \A t \in Tasks : tasks[t].pc = "done"

\* ============================================================ decoders
\* The seven log decoders of event_parsers (src/src/tool.rs), applied to raw
\* logs with their bytes.
\* Largest number of topics of a raw log.
MaxTopics == 4
\* Largest payload, in bytes, of the raw logs handed to the decoders.
MaxDataLen == 200

\* Topic k of a log: a 32-byte value whose low 20 bytes are an address.
TopicOf(k) == [i \in 1..32 |-> IF i <= 12 THEN 0 ELSE (i * k) % 256]

\* Byte i (from 1) of a payload: amounts with leading zero bytes.
DataByte(i) == IF (i - 1) % 32 < 29 THEN 0 ELSE (i * 7) % 256

\* The raw log with nt topics and dl payload bytes.
RawLog(nt, dl) == [topics |-> [k \in 1..nt |-> TopicOf(k)],
                   data   |-> [i \in 1..dl |-> DataByte(i)]]

Logs == { RawLog(nt, dl) : nt \in 0..MaxTopics, dl \in 0..MaxDataLen }

\* Topic count and payload length of a raw log.
Shape(log) == [topics |-> Len(log.topics), dlen |-> Len(log.data)]

\* &data[a..b]: bytes a (from 0) up to b, excluded; b must be within data.
Slice(data, a, b) == SubSeq(data, a + 1, b)
InBounds(data, b) == b <= Len(data)

RECURSIVE from_big_endian(_)
\* U256::from_big_endian: the number the bytes denote, kept as its base-256
\* digits without leading zeros (the number 0 is the empty sequence).
from_big_endian(bytes) ==
    IF bytes = << >> THEN << >>
    ELSE IF Head(bytes) = 0 THEN from_big_endian(Tail(bytes))
    ELSE bytes

\* H160::from_slice(&topic.as_bytes()[12..]): the low 20 bytes of a topic.
AddressOfTopic(topic) == SubSeq(topic, 13, 32)

\* i32::from_be_bytes of four bytes, in two's complement.
i32_from_be_bytes(b) ==
    (IF b[1] >= 128 THEN b[1] - 256 ELSE b[1]) * 16777216
        + b[2] * 65536 + b[3] * 256 + b[4]

\* bytes_to_i24: a 3-byte big-endian value sign-extended to i32.
bytes_to_i24(b) ==
    IF Len(b) # 3 THEN 0
    ELSE i32_from_be_bytes(<< IF b[1] >= 128 THEN 255 ELSE 0, b[1], b[2], b[3] >>)

DecodeOk(event) == [kind |-> "ok", event |-> event]
DecodeErr(msg) == [kind |-> "err", msg |-> msg]
\* A slice that ends beyond the payload: the decoder panics.
DecodePanic == [kind |-> "panic"]

\* parse_swap_log on a log with its bytes: its checks, then its fields.
parse_swap_log_fields(log) ==
    LET chk == parse_swap_log(Shape(log))
        data == log.data
    IN IF ~chk.ok THEN DecodeErr(chk.err)
       ELSE DecodeOk([sender      |-> AddressOfTopic(log.topics[2]),
                      to          |-> AddressOfTopic(log.topics[3]),
                      amount0_in  |-> from_big_endian(Slice(data, 0, 32)),
                      amount1_in  |-> from_big_endian(Slice(data, 32, 64)),
                      amount0_out |-> from_big_endian(Slice(data, 64, 96)),
                      amount1_out |-> from_big_endian(Slice(data, 96, 128))])

parse_mint_log(log) ==
    LET data == log.data
    IN IF Len(log.topics) < 2 THEN DecodeErr("insufficient topics")
       ELSE IF Len(data) < 64 THEN DecodeErr("insufficient data")
       ELSE DecodeOk([sender  |-> AddressOfTopic(log.topics[2]),
                      amount0 |-> from_big_endian(Slice(data, 0, 32)),
                      amount1 |-> from_big_endian(Slice(data, 32, 64))])

parse_burn_log(log) ==
    LET data == log.data
    IN IF Len(log.topics) < 3 THEN DecodeErr("insufficient topics")
       ELSE IF Len(data) < 64 THEN DecodeErr("insufficient data")
       ELSE DecodeOk([sender  |-> AddressOfTopic(log.topics[2]),
                      to      |-> AddressOfTopic(log.topics[3]),
                      amount0 |-> from_big_endian(Slice(data, 0, 32)),
                      amount1 |-> from_big_endian(Slice(data, 32, 64))])

parse_pair_created_log(log) ==
    LET data == log.data
    IN IF Len(log.topics) < 3 THEN DecodeErr("insufficient topics")
       ELSE IF Len(data) < 32 THEN DecodeErr("insufficient data")
       ELSE DecodeOk([token0 |-> AddressOfTopic(log.topics[2]),
                      token1 |-> AddressOfTopic(log.topics[3]),
                      pair   |-> Slice(data, 12, 32)])

\* The tick is sliced at data[128..132] after a length test against 128.
parse_v3_swap_log(log) ==
    LET data == log.data
    IN IF Len(log.topics) < 4 THEN DecodeErr("insufficient topics")
       ELSE IF Len(data) < 128 THEN DecodeErr("insufficient data")
       ELSE IF ~InBounds(data, 132) THEN DecodePanic
       ELSE DecodeOk([sender         |-> AddressOfTopic(log.topics[2]),
                      recipient      |-> AddressOfTopic(log.topics[3]),
                      amount0        |-> from_big_endian(Slice(data, 0, 32)),
                      amount1        |-> from_big_endian(Slice(data, 32, 64)),
                      sqrt_price_x96 |-> from_big_endian(Slice(data, 64, 96)),
                      liquidity      |-> from_big_endian(Slice(data, 96, 128)),
                      tick           |-> i32_from_be_bytes(Slice(data, 128, 132))])

parse_v3_mint_log(log) ==
    LET data == log.data
    IN IF Len(log.topics) < 4 THEN DecodeErr("insufficient topics")
       ELSE IF Len(data) < 128 THEN DecodeErr("insufficient data")
       ELSE IF ~InBounds(data, 102) THEN DecodePanic
       ELSE DecodeOk([sender     |-> AddressOfTopic(log.topics[2]),
                      owner      |-> AddressOfTopic(log.topics[3]),
                      tick_lower |-> bytes_to_i24(Slice(data, 0, 3)),
                      tick_upper |-> bytes_to_i24(Slice(data, 3, 6)),
                      amount     |-> from_big_endian(Slice(data, 6, 38)),
                      amount0    |-> from_big_endian(Slice(data, 38, 70)),
                      amount1    |-> from_big_endian(Slice(data, 70, 102))])

\* The last word is sliced at data[70..102] after a length test against 96.
parse_v3_burn_log(log) ==
    LET data == log.data
    IN IF Len(log.topics) < 4 THEN DecodeErr("insufficient topics")
       ELSE IF Len(data) < 96 THEN DecodeErr("insufficient data")
       ELSE IF ~InBounds(data, 102) THEN DecodePanic
       ELSE DecodeOk([owner      |-> AddressOfTopic(log.topics[2]),
                      tick_lower |-> bytes_to_i24(Slice(data, 0, 3)),
                      tick_upper |-> bytes_to_i24(Slice(data, 3, 6)),
                      amount     |-> from_big_endian(Slice(data, 6, 38)),
                      amount0    |-> from_big_endian(Slice(data, 38, 70)),
                      amount1    |-> from_big_endian(Slice(data, 70, 102))])

\* The listener variables of a state in which no listener exists.
ListenerAbsent ==
    /\ config = << >>
    /\ overflow_checks = FALSE
    /\ height = 0
    /\ last_block_number = 0
    /\ is_running = FALSE
    /\ callers = << >>
    /\ start_result = "none"
    /\ tasks = << >>
    /\ covered = {}
    /\ cursor = -1
    /\ stopped_at = -1
    /\ restarted = FALSE

\* ret after fn has been called and has returned (or panicked with) out.
Called(fn, out) == [fn |-> fn, out |-> out]

InitDecode ==
    /\ arg \in Logs
    /\ ret = NoCall
    /\ ListenerAbsent
    /\ ServicesAbsent

ParseSwap ==
    /\ ret' = Called("parse_swap_log", parse_swap_log_fields(arg))
    /\ UNCHANGED << arg, service_vars, listener_vars >>

ParseMint ==
    /\ ret' = Called("parse_mint_log", parse_mint_log(arg))
    /\ UNCHANGED << arg, service_vars, listener_vars >>

ParseBurn ==
    /\ ret' = Called("parse_burn_log", parse_burn_log(arg))
    /\ UNCHANGED << arg, service_vars, listener_vars >>

ParsePairCreated ==
    /\ ret' = Called("parse_pair_created_log", parse_pair_created_log(arg))
    /\ UNCHANGED << arg, service_vars, listener_vars >>

ParseV3Swap ==
    /\ ret' = Called("parse_v3_swap_log", parse_v3_swap_log(arg))
    /\ UNCHANGED << arg, service_vars, listener_vars >>

ParseV3Mint ==
    /\ ret' = Called("parse_v3_mint_log", parse_v3_mint_log(arg))
    /\ UNCHANGED << arg, service_vars, listener_vars >>

ParseV3Burn ==
    /\ ret' = Called("parse_v3_burn_log", parse_v3_burn_log(arg))
    /\ UNCHANGED << arg, service_vars, listener_vars >>

NextDecode ==
    \/ ParseSwap
    \/ ParseMint
    \/ ParseBurn
    \/ ParsePairCreated
    \/ ParseV3Swap
    \/ ParseV3Mint
    \/ ParseV3Burn

SpecDecode == InitDecode /\ [][NextDecode]_vars

\* The topics (topic0 included) and the payload bytes the layout of each
\* event holds: its indexed fields, and the end of its last data field.
EventMinTopics ==
    [parse_swap_log |-> 3, parse_mint_log |-> 2, parse_burn_log |-> 3,
     parse_pair_created_log |-> 3, parse_v3_swap_log |-> 3,
     parse_v3_mint_log |-> 3, parse_v3_burn_log |-> 2]
EventMinData ==
    [parse_swap_log |-> 128, parse_mint_log |-> 64, parse_burn_log |-> 64,
     parse_pair_created_log |-> 32, parse_v3_swap_log |-> 132,
     parse_v3_mint_log |-> 102, parse_v3_burn_log |-> 102]

Decoders == DOMAIN EventMinTopics

\* C12: each of the seven decoders answers a log with fewer topics or
\* fewer payload bytes than the event's layout holds with an error, never
\* with an event; parse_swap_log so rejects every payload under 128 bytes.
C12_ShortLogRejected ==
    ret.fn \in Decoders =>
        ( (\/ Len(arg.topics) < EventMinTopics[ret.fn]
           \/ Len(arg.data) < EventMinData[ret.fn])
             => ret.out.kind = "err" )

\* C13: parse_swap_log succeeds on every log with topic0, sender and to
\* topics and at least 128 payload bytes, and returns the first four
\* 32-byte words as amount0In, amount1In, amount0Out, amount1Out.
C13_SwapMinimumPayload ==
    (ret.fn = "parse_swap_log" /\ Len(arg.topics) >= 3 /\ Len(arg.data) >= 4 * 32)
        => /\ ret.out.kind = "ok"
           /\ ret.out.event.amount0_in  = from_big_endian(SubSeq(arg.data, 1, 32))
           /\ ret.out.event.amount1_in  = from_big_endian(SubSeq(arg.data, 33, 64))
           /\ ret.out.event.amount0_out = from_big_endian(SubSeq(arg.data, 65, 96))
           /\ ret.out.event.amount1_out = from_big_endian(SubSeq(arg.data, 97, 128))

\* ============================================== constant-product quote
\* math_utils::calculate_amount_out (src/src/tool.rs) and
\* PriceService::get_price_via_pair (src/src/price.rs).  The amounts stay
\* far below 2^256: no U256 operation overflows.
\* Largest amount_in quoted.
MaxAmountIn == 12

\* Reserves a pool may hold.
Reserves == {0, 1, 7, 500, 1000}

QuoteOk(n) == [kind |-> "ok", value |-> n]
QuoteErr(msg) == [kind |-> "err", msg |-> msg]

\* tool.rs 208-229.
calculate_amount_out(amount_in, reserve_in, reserve_out) ==
    IF amount_in = 0 THEN QuoteOk(0)
    ELSE IF reserve_in = 0 \/ reserve_out = 0
         THEN QuoteErr("Reserves cannot be zero")
    ELSE LET amount_in_with_fee == amount_in * 997
             numerator == amount_in_with_fee * reserve_out
             denominator == reserve_in * 1000 + amount_in_with_fee
         IN IF denominator = 0 THEN QuoteErr("Denominator is zero")
            ELSE QuoteOk(numerator \div denominator)

\* price.rs 236-259.  pool is what get_pool_info returned: the read failed,
\* or the reserves of token0 and token1; token_in is "token0", "token1" or
\* a token that is not of the pair.
get_price_via_pair(pool, token_in, amount_in) ==
    IF ~pool.ok THEN QuoteErr("pool info")
    ELSE IF pool.reserve0 = 0 \/ pool.reserve1 = 0
         THEN QuoteErr("Reserves are zero")
    ELSE IF token_in \notin {"token0", "token1"}
         THEN QuoteErr("Token not in pair")
    ELSE LET reserve_in  == IF token_in = "token0" THEN pool.reserve0
                                                   ELSE pool.reserve1
             reserve_out == IF token_in = "token0" THEN pool.reserve1
                                                   ELSE pool.reserve0
             amount_in_with_fee == amount_in * 997
             numerator == amount_in_with_fee * reserve_out
             denominator == reserve_in * 1000 + amount_in_with_fee
         IN QuoteOk(numerator \div denominator)

\* The inputs of one quote: the pool as read, the token sold, the amount.
QuoteArgs ==
    [pool : [ok : BOOLEAN, reserve0 : Reserves, reserve1 : Reserves],
     token_in : {"token0", "token1", "other"},
     amount_in : 0..MaxAmountIn]

InitQuote ==
    /\ arg \in QuoteArgs
    /\ ret = NoCall
    /\ ListenerAbsent
    /\ ServicesAbsent

\* calculate_amount_out called with the reserves of token0 (in) and token1.
CalculateAmountOut ==
    /\ ret' = Called("calculate_amount_out",
                     calculate_amount_out(arg.amount_in, arg.pool.reserve0,
                                          arg.pool.reserve1))
    /\ UNCHANGED << arg, service_vars, listener_vars >>

GetPriceViaPair ==
    /\ ret' = Called("get_price_via_pair",
                     get_price_via_pair(arg.pool, arg.token_in, arg.amount_in))
    /\ UNCHANGED << arg, service_vars, listener_vars >>

NextQuote ==
    \/ CalculateAmountOut
    \/ GetPriceViaPair

SpecQuote == InitQuote /\ [][NextQuote]_vars

\* The reserves a call of the quote at hand worked on: reserve_in and
\* reserve_out of the hop, and whether it had a hop to work on at all.
HopOfCall ==
    IF ret.fn = "calculate_amount_out"
    THEN [has |-> TRUE, rin |-> arg.pool.reserve0, rout |-> arg.pool.reserve1]
    ELSE [has  |-> arg.pool.ok /\ arg.token_in \in {"token0", "token1"},
          rin  |-> IF arg.token_in = "token0" THEN arg.pool.reserve0
                                              ELSE arg.pool.reserve1,
          rout |-> IF arg.token_in = "token0" THEN arg.pool.reserve1
                                              ELSE arg.pool.reserve0]

\* floor(997 * a * rout / (1000 * rin + 997 * a)).
ConstantProductOut(a, rin, rout) == (997 * a * rout) \div (1000 * rin + 997 * a)

\* C14: for one constant-product hop with non-zero reserves the quoted
\* output is floor(997*amount_in*reserve_out / (1000*reserve_in +
\* 997*amount_in)) for every amount_in; a hop with a zero reserve gives an
\* error, not a number.
C14_ConstantProductQuote ==
    (ret.fn \in {"calculate_amount_out", "get_price_via_pair"} /\ HopOfCall.has)
        => IF HopOfCall.rin # 0 /\ HopOfCall.rout # 0
           THEN ret.out = QuoteOk(ConstantProductOut(arg.amount_in,
                                                     HopOfCall.rin, HopOfCall.rout))
           ELSE ret.out.kind = "err"

\* ======================================================= get_best_price
\* PancakeSwapService::get_best_price (src/src/lib.rs 323-348) on the
\* results of get_v2_price and get_v3_price.
\* Largest amount_out a venue quotes.
MaxQuote == 10

\* What get_v2_price or get_v3_price returns: an error, or a PriceInfo
\* (its amount_out).
VenueQuotes == {QuoteErr("no quote")} \cup {QuoteOk(n) : n \in 0..MaxQuote}

\* Result::ok(): Some(PriceInfo) of an Ok, None of an Err.
ResultOk(r) == IF r.kind = "ok" THEN [some |-> TRUE, amount_out |-> r.value]
                                ELSE [some |-> FALSE]

PriceComparison(v2_price, v3_price, best) ==
    [kind |-> "ok", v2 |-> ResultOk(v2_price), v3 |-> ResultOk(v3_price),
     best |-> best]

\* get_best_price preferring V2 when the two amounts are equal.
get_best_price_tie_v2(v2_price, v3_price) ==
    IF v2_price.kind = "ok" /\ v3_price.kind = "ok"
    THEN PriceComparison(v2_price, v3_price,
                         IF v2_price.value >= v3_price.value THEN "V2" ELSE "V3")
    ELSE IF v2_price.kind = "ok" THEN PriceComparison(v2_price, v3_price, "V2")
    ELSE IF v3_price.kind = "ok" THEN PriceComparison(v2_price, v3_price, "V3")
    ELSE QuoteErr("No price available")

\* get_best_price taking V3 whenever the two quotes are not both Ok.
get_best_price_else_v3(v2_price, v3_price) ==
    IF v2_price.kind = "ok" /\ v3_price.kind = "ok"
    THEN PriceComparison(v2_price, v3_price,
                         IF v2_price.value > v3_price.value THEN "V2" ELSE "V3")
    ELSE PriceComparison(v2_price, v3_price, "V3")

\* lib.rs 329-347: the match on (&v2_price, &v3_price).
get_best_price(v2_price, v3_price) ==
    IF v2_price.kind = "ok" /\ v3_price.kind = "ok"
    THEN PriceComparison(v2_price, v3_price,
                         IF v2_price.value > v3_price.value THEN "V2" ELSE "V3")
    ELSE IF v2_price.kind = "ok" THEN PriceComparison(v2_price, v3_price, "V2")
    ELSE IF v3_price.kind = "ok" THEN PriceComparison(v2_price, v3_price, "V3")
    ELSE QuoteErr("No price available")

InitBest ==
    /\ arg \in [v2 : VenueQuotes, v3 : VenueQuotes]
    /\ ret = NoCall
    /\ ListenerAbsent
    /\ ServicesAbsent

GetBestPrice ==
    /\ ret' = Called("get_best_price", get_best_price(arg.v2, arg.v3))
    /\ UNCHANGED << arg, service_vars, listener_vars >>

NextBest == GetBestPrice

SpecBest == InitBest /\ [][NextBest]_vars

\* get_best_price has returned and both venues had returned a quote.
BothQuoted ==
    ret.fn = "get_best_price" /\ arg.v2.kind = "ok" /\ arg.v3.kind = "ok"

\* C15 as stated: with both venues quoting, the venue with the strictly
\* larger amount_out is selected, and V2 when the two amounts are equal.
C15_TieSelectsV2 ==
    BothQuoted =>
        /\ ret.out.kind = "ok"
        /\ arg.v2.value > arg.v3.value => ret.out.best = "V2"
        /\ arg.v3.value > arg.v2.value => ret.out.best = "V3"
        /\ arg.v2.value = arg.v3.value => ret.out.best = "V2"

\* C15 amended: with both venues quoting, the venue with the strictly
\* larger amount_out is selected, and V3 when the two amounts are equal.
C15_TieSelectsV3 ==
    BothQuoted =>
        /\ ret.out.kind = "ok"
        /\ arg.v2.value > arg.v3.value => ret.out.best = "V2"
        /\ arg.v3.value > arg.v2.value => ret.out.best = "V3"
        /\ arg.v2.value = arg.v3.value => ret.out.best = "V3"

\* Both venues quoted the same non-zero amount and V3 was selected.
C15_Witness ==
    /\ BothQuoted
    /\ arg.v2.value = arg.v3.value
    /\ arg.v2.value > 0
    /\ ret.out.best = "V3"

\* C16: when exactly one venue's quote succeeds that venue is returned as
\* best, with its quote, and the other quote is absent; when both fail an
\* error is returned and no comparison.
C16_OneOrNoQuote ==
    (ret.fn = "get_best_price" /\ ~(arg.v2.kind = "ok" /\ arg.v3.kind = "ok"))
        => /\ (arg.v2.kind = "ok")
                => ret.out = [kind |-> "ok", best |-> "V2",
                              v2 |-> [some |-> TRUE, amount_out |-> arg.v2.value],
                              v3 |-> [some |-> FALSE]]
           /\ (arg.v3.kind = "ok")
                => ret.out = [kind |-> "ok", best |-> "V3",
                              v2 |-> [some |-> FALSE],
                              v3 |-> [some |-> TRUE, amount_out |-> arg.v3.value]]
           /\ (arg.v2.kind = "err" /\ arg.v3.kind = "err")
                => ret.out.kind = "err"

\* Only the V2 quote succeeded and get_best_price returned V2 as best.
C16_Witness ==
    /\ ret.fn = "get_best_price"
    /\ arg.v2.kind = "ok"
    /\ arg.v3.kind = "err"
    /\ ret.out.kind = "ok"
    /\ ret.out.best = "V2"

\* ==================================================== find_optimal_path
\* PriceService::find_optimal_path (src/src/price.rs 327-372) on the
\* results of its router lookups.
\* Largest output a lookup quotes.
MaxOut == 3
\* Largest number of intermediate tokens handed to find_optimal_path.
MaxIntermediates == 2

\* get_price for the direct path: an error, or amounts[1].
DirectLookups == {QuoteErr("Failed to get price")} \cup {QuoteOk(n) : n \in 0..MaxOut}

\* get_amounts_out for a path through an intermediate: an error, a reply
\* with fewer than three amounts, or amounts[2].
ViaLookups ==
    {QuoteErr("call failed"), [kind |-> "short"]} \cup {QuoteOk(n) : n \in 0..MaxOut}

\* One entry of intermediate_tokens with the reply its lookup will get; an
\* entry equal to token_in or token_out is never looked up.
Intermediates ==
    {[token |-> t, quote |-> QuoteErr("not called")] : t \in {"in", "out"}}
        \cup [token : {"x", "y"}, quote : ViaLookups]

PathArgs ==
    [direct : DirectLookups,
     intermediate_tokens :
         UNION {[1..n -> Intermediates] : n \in 0..MaxIntermediates}]

RECURSIVE PathLoop(_, _)
\* price.rs 345-364: the loop over intermediate_tokens, from the best
\* amount and path so far.
PathLoop(rest, best) ==
    IF rest = << >> THEN best
    ELSE LET i == Head(rest)
         IN IF i.token = "in" \/ i.token = "out"
            THEN PathLoop(Tail(rest), best)
            ELSE IF i.quote.kind = "ok" /\ i.quote.value > best.amount
            THEN PathLoop(Tail(rest),
                          [amount |-> i.quote.value,
                           path   |-> << "in", i.token, "out" >>])
            ELSE PathLoop(Tail(rest), best)

\* price.rs 335-344: best_amount and best_path after the direct lookup.
AfterDirect(direct) ==
    [amount |-> IF direct.kind = "ok" THEN direct.value ELSE 0,
     path   |-> << "in", "out" >>]

\* find_optimal_path returning its best path although best_amount is zero.
find_optimal_path_keep_zero(direct, intermediate_tokens) ==
    LET best == PathLoop(intermediate_tokens, AfterDirect(direct))
    IN [kind |-> "ok", path |-> best.path, amount |-> best.amount]

\* price.rs 327-372.
find_optimal_path(direct, intermediate_tokens) ==
    LET best == PathLoop(intermediate_tokens, AfterDirect(direct))
    IN IF best.amount = 0 THEN QuoteErr("No valid path found")
       ELSE [kind |-> "ok", path |-> best.path, amount |-> best.amount]

InitPath ==
    /\ arg \in PathArgs
    /\ ret = NoCall
    /\ ListenerAbsent
    /\ ServicesAbsent

FindOptimalPath ==
    /\ ret' = Called("find_optimal_path",
                     find_optimal_path(arg.direct, arg.intermediate_tokens))
    /\ UNCHANGED << arg, service_vars, listener_vars >>

NextPath == FindOptimalPath

SpecPath == InitPath /\ [][NextPath]_vars

\* The candidates of a call: the direct path, and the path through each
\* entry of intermediate_tokens that is neither token_in nor token_out;
\* each with the reply its lookup got.
Candidates ==
    {[path |-> << "in", "out" >>, quote |-> arg.direct]}
        \cup {[path  |-> << "in", arg.intermediate_tokens[k].token, "out" >>,
               quote |-> arg.intermediate_tokens[k].quote] :
                  k \in {j \in DOMAIN arg.intermediate_tokens :
                            arg.intermediate_tokens[j].token \notin {"in", "out"}}}

\* The candidates whose lookup returned a quote.
Quoted == {c \in Candidates : c.quote.kind = "ok"}

\* The path returned is a candidate that was quoted, the amount returned is
\* exactly its quote, and no candidate was quoted more.
ReturnsBestCandidate ==
    ret.out.kind = "ok" =>
        /\ \E c \in Quoted : c.path = ret.out.path /\ c.quote.value = ret.out.amount
        /\ \A c \in Quoted : ret.out.amount >= c.quote.value

\* C17 as stated: find_optimal_path returns a candidate path whose quoted
\* output is >= that of every candidate quoted, with exactly that output;
\* it fails if, and only if, every candidate lookup yields no quote.
C17_FailsIffAllLookupsFail ==
    ret.fn = "find_optimal_path" =>
        /\ ReturnsBestCandidate
        /\ ret.out.kind = "err" <=> Quoted = {}

\* C17 amended: the same result on success; it fails if, and only if, no
\* candidate was quoted a non-zero output.
C17_FailsIffNoNonZeroQuote ==
    ret.fn = "find_optimal_path" =>
        /\ ReturnsBestCandidate
        /\ ret.out.kind = "err" <=> (\A c \in Quoted : c.quote.value = 0)
        /\ ret.out.kind = "ok" => ret.out.amount > 0

\* The direct path was quoted, a path through an intermediate was quoted
\* more, and that path was returned with its output.
C17_Witness ==
    /\ ret.fn = "find_optimal_path"
    /\ arg.direct.kind = "ok"
    /\ arg.direct.value > 0
    /\ ret.out.kind = "ok"
    /\ Len(ret.out.path) = 3
    /\ ret.out.amount > arg.direct.value

\* ==================================================== arbitrage scanner
\* find_arbitrage_opportunities, check_triangular_arbitrage and
\* assess_arbitrage_risk (src/src/analytics.rs 143-257).  A percentage is
\* kept in hundredths of a percent; the f64 values of the source are exact
\* at the amounts of the model.
\* The probe amount test_amount (10^18 in the source) at the model's scale.
TestAmount == 1000
\* Longest list of intermediate tokens handed to the scan.
MaxTokenList == 3
\* Largest number of hops of a path handed to assess_arbitrage_risk.
MaxHops == 3

Tokens == {"a", "b", "c"}
TokenPairs == {p \in Tokens \X Tokens : p[1] # p[2]}

\* simulate_swap_path for a round trip: an error, or the amount returned.
SimResults == {QuoteErr("simulation failed")} \cup {QuoteOk(n) : n \in {1015, 1020, 1060}}

\* find_pair_address and get_reserves for one hop: one of the two reads
\* failed, or the two reserves of the pair.
HopErr == [kind |-> "err"]
HopOk(r0, r1) == [kind |-> "ok", reserve0 |-> r0, reserve1 |-> r1]

\* analytics.rs 234-257.  reads holds, hop by hop, what the two reads of the
\* hop returned; liquidity_score / hops < x is compared as
\* liquidity_score < x * hops.
RECURSIVE LiquidityScore(_)
LiquidityScore(reads) ==
    IF reads = << >> THEN 0
    ELSE (IF Head(reads).kind = "ok"
          THEN Head(reads).reserve0 + Head(reads).reserve1 ELSE 0)
         + LiquidityScore(Tail(reads))

\* assess_arbitrage_risk testing the Medium thresholds before the High ones.
assess_arbitrage_risk_medium_first(reads, profit_percentage) ==
    LET liquidity_score == LiquidityScore(reads)
        hops == Len(reads)
    IN IF profit_percentage > 2 * 100 \/ liquidity_score < 50000 * hops
       THEN "Medium"
       ELSE IF profit_percentage > 5 * 100 \/ liquidity_score < 10000 * hops
       THEN "High"
       ELSE "Low"

assess_arbitrage_risk(reads, profit_percentage) ==
    LET liquidity_score == LiquidityScore(reads)
        hops == Len(reads)
    IN IF profit_percentage > 5 * 100 \/ liquidity_score < 10000 * hops
       THEN "High"
       ELSE IF profit_percentage > 2 * 100 \/ liquidity_score < 50000 * hops
       THEN "Medium"
       ELSE "Low"

\* (profit / test_amount) * 100.0, in hundredths of a percent.
ProfitPercentage(profit) == (profit * 100 * 100) \div TestAmount

\* What the reads of the hop between x and y return while a scan runs.
HopRead(x, y) ==
    IF {x, y} = {"base", "c"} THEN HopErr
    ELSE IF "base" \in {x, y} THEN HopOk(60000, 60000)
    ELSE HopOk(25000, 5000)

PathReads(path) == [k \in 1..(Len(path) - 1) |-> HopRead(path[k], path[k + 1])]

\* check_triangular_arbitrage returning the better round trip whatever the
\* threshold.
check_triangular_arbitrage_no_threshold(sim, token_a, token_b, min_profit_percentage) ==
    LET result1 == sim[<< token_a, token_b >>]
        result2 == sim[<< token_b, token_a >>]
    IN IF result1.kind # "ok" THEN QuoteErr("simulation failed")
       ELSE IF result2.kind # "ok" THEN QuoteErr("simulation failed")
       ELSE LET profit1 == result1.value - TestAmount
                profit2 == result2.value - TestAmount
                first   == profit1 > profit2
                profit  == IF first THEN profit1 ELSE profit2
                path    == IF first THEN << "base", token_a, token_b, "base" >>
                                    ELSE << "base", token_b, token_a, "base" >>
                profit_percentage == ProfitPercentage(profit)
            IN [kind |-> "ok",
                path |-> path,
                expected_profit |-> profit,
                profit_percentage |-> profit_percentage,
                required_amount |-> TestAmount,
                risk_level |-> assess_arbitrage_risk(PathReads(path),
                                                     profit_percentage)]

\* analytics.rs 182-232.  sim holds what simulate_swap_path returns for the
\* round trip base -> x -> y -> base, for each pair of tokens.
check_triangular_arbitrage(sim, token_a, token_b, min_profit_percentage) ==
    LET result1 == sim[<< token_a, token_b >>]
        result2 == sim[<< token_b, token_a >>]
    IN IF result1.kind # "ok" THEN QuoteErr("simulation failed")
       ELSE IF result2.kind # "ok" THEN QuoteErr("simulation failed")
       ELSE LET profit1 == result1.value - TestAmount
                profit2 == result2.value - TestAmount
                first   == profit1 > profit2
                profit  == IF first THEN profit1 ELSE profit2
                path    == IF first THEN << "base", token_a, token_b, "base" >>
                                    ELSE << "base", token_b, token_a, "base" >>
                profit_percentage == ProfitPercentage(profit)
            IN IF profit_percentage < min_profit_percentage
               THEN QuoteErr("Profit below threshold")
               ELSE [kind |-> "ok",
                     path |-> path,
                     expected_profit |-> profit,
                     profit_percentage |-> profit_percentage,
                     required_amount |-> TestAmount,
                     risk_level |-> assess_arbitrage_risk(PathReads(path),
                                                          profit_percentage)]

RECURSIVE ScanPairs(_, _, _, _)
\* analytics.rs 152-171: the two nested loops over intermediate_tokens, as
\* one loop over k = (i - 1) * n + j; an opportunity carries, as found, the
\* place k of its pair in the enumeration.
ScanPairs(tokens, sim, min_profit_percentage, k) ==
    LET n == Len(tokens)
    IN IF k > n * n THEN << >>
       ELSE LET token_a == tokens[((k - 1) \div n) + 1]
                token_b == tokens[((k - 1) % n) + 1]
                rest == ScanPairs(tokens, sim, min_profit_percentage, k + 1)
            IN IF token_a = token_b THEN rest
               ELSE LET r == check_triangular_arbitrage(sim, token_a, token_b,
                                                        min_profit_percentage)
                    IN IF r.kind = "ok"
                       THEN << [opportunity |-> r, found |-> k] >> \o rest
                       ELSE rest

RECURSIVE InsertByProfit(_, _, _)
\* x put into a list ordered by non-increasing profit_percentage: behind the
\* entries that compare Equal to it, or before them when ties_first.
InsertByProfit(sorted, x, ties_first) ==
    IF sorted = << >> THEN << x >>
    ELSE LET h == Head(sorted)
             stays == IF ties_first
                      THEN h.opportunity.profit_percentage > x.opportunity.profit_percentage
                      ELSE h.opportunity.profit_percentage >= x.opportunity.profit_percentage
         IN IF stays THEN << h >> \o InsertByProfit(Tail(sorted), x, ties_first)
            ELSE << x >> \o sorted

RECURSIVE SortByProfit(_, _)
SortByProfit(opportunities, ties_first) ==
    IF opportunities = << >> THEN << >>
    ELSE InsertByProfit(
             SortByProfit(SubSeq(opportunities, 1, Len(opportunities) - 1),
                          ties_first),
             opportunities[Len(opportunities)], ties_first)

\* A sort that puts, of two opportunities that compare Equal, the later first.
sort_by_profit_desc_unstable(opportunities) == SortByProfit(opportunities, TRUE)

\* analytics.rs 173-177: Vec::sort_by, a stable sort, on
\* b.profit_percentage.partial_cmp(&a.profit_percentage).
sort_by_profit_desc(opportunities) == SortByProfit(opportunities, FALSE)

\* analytics.rs 143-180.
find_arbitrage_opportunities(tokens, sim, min_profit_percentage) ==
    [kind |-> "ok",
     opportunities |->
         sort_by_profit_desc(ScanPairs(tokens, sim, min_profit_percentage, 1))]

ArbArgs ==
    [intermediate_tokens : UNION {[1..n -> Tokens] : n \in 0..MaxTokenList},
     sim : [TokenPairs -> SimResults],
     min_profit_percentage : {2 * 100, 5 * 100}]

InitArb ==
    /\ arg \in ArbArgs
    /\ ret = NoCall
    /\ ListenerAbsent
    /\ ServicesAbsent

FindArbitrageOpportunities ==
    /\ ret' = Called("find_arbitrage_opportunities",
                     find_arbitrage_opportunities(arg.intermediate_tokens, arg.sim,
                                                  arg.min_profit_percentage))
    /\ UNCHANGED << arg, service_vars, listener_vars >>

NextArb == FindArbitrageOpportunities

SpecArb == InitArb /\ [][NextArb]_vars

\* The pairs (A, B) the scan enumerates, by their place k in the enumeration.
Enumerated ==
    LET n == Len(arg.intermediate_tokens)
    IN {k \in 1..(n * n) :
           arg.intermediate_tokens[((k - 1) \div n) + 1]
               # arg.intermediate_tokens[((k - 1) % n) + 1]}

PairAt(k) ==
    LET n == Len(arg.intermediate_tokens)
    IN << arg.intermediate_tokens[((k - 1) \div n) + 1],
          arg.intermediate_tokens[((k - 1) % n) + 1] >>

\* Both round trips of the pair at k were simulated, and the better one
\* returns amount: a profit of (amount - TestAmount) / TestAmount.
BestReturn(k) ==
    LET r1 == arg.sim[PairAt(k)]
        r2 == arg.sim[<< PairAt(k)[2], PairAt(k)[1] >>]
    IN IF r1.value > r2.value THEN r1.value ELSE r2.value

BothSimulated(k) ==
    /\ arg.sim[PairAt(k)].kind = "ok"
    /\ arg.sim[<< PairAt(k)[2], PairAt(k)[1] >>].kind = "ok"

\* The pair at k is below the threshold: 100 * profit / TestAmount is less
\* than min_profit_percentage (in hundredths of a percent).
BelowThreshold(k) ==
    /\ BothSimulated(k)
    /\ (BestReturn(k) - TestAmount) * 100 * 100 < arg.min_profit_percentage * TestAmount

Scanned == ret.fn = "find_arbitrage_opportunities"

\* C18: every opportunity returned by find_arbitrage_opportunities has
\* profit_percentage >= min_profit_percentage; a pair whose best round trip
\* is below the threshold is absent from the result; the scan succeeds.
C18_ThresholdFilter ==
    Scanned =>
        /\ ret.out.kind = "ok"
        /\ \A i \in DOMAIN ret.out.opportunities :
              /\ ret.out.opportunities[i].opportunity.profit_percentage
                     >= arg.min_profit_percentage
              /\ ret.out.opportunities[i].found \in Enumerated
        /\ \A k \in Enumerated :
              BelowThreshold(k) =>
                  \A i \in DOMAIN ret.out.opportunities :
                      ret.out.opportunities[i].found # k

\* A scan against 2.0% met a pair whose best round trip earns 1.5% and a
\* pair that earns more than the threshold: the first is absent, the second
\* is returned.
C18_Witness ==
    /\ Scanned
    /\ arg.min_profit_percentage = 2 * 100
    /\ \E k \in Enumerated :
          BothSimulated(k) /\ (BestReturn(k) - TestAmount) * 1000 = 15 * TestAmount
    /\ ret.out.opportunities # << >>

\* --------------------------------------------- assess_arbitrage_risk alone
\* The reads of one hop, and the calls of assess_arbitrage_risk: a path of
\* 1 to MaxHops hops with the reads of each hop, and a profit_percentage
\* (in hundredths of a percent).
HopReads == {HopErr} \cup {HopOk(r0, r1) : r0, r1 \in {0, 5000, 25000, 60000}}

RiskArgs ==
    [reads : UNION {[1..n -> HopReads] : n \in 1..MaxHops},
     profit_percentage : {150, 200, 201, 500, 501}]

InitRisk ==
    /\ arg \in RiskArgs
    /\ ret = NoCall
    /\ ListenerAbsent
    /\ ServicesAbsent

AssessArbitrageRisk ==
    /\ ret' = Called("assess_arbitrage_risk",
                     assess_arbitrage_risk(arg.reads, arg.profit_percentage))
    /\ UNCHANGED << arg, service_vars, listener_vars >>

NextRisk == AssessArbitrageRisk

SpecRisk == InitRisk /\ [][NextRisk]_vars

\* The sum of both reserves over the hops whose reserves were read.
ReservesRead ==
    LET RECURSIVE Sum(_)
        Sum(k) == IF k = 0 THEN 0
                  ELSE Sum(k - 1)
                       + (IF arg.reads[k].kind = "ok"
                          THEN arg.reads[k].reserve0 + arg.reads[k].reserve1
                          ELSE 0)
    IN Sum(Len(arg.reads))

\* avg_liquidity < x, for avg_liquidity = ReservesRead / number of hops.
AvgLiquidityBelow(x) == ReservesRead < x * Len(arg.reads)

\* C19: the risk level is High if profit_percentage > 5 or avg_liquidity <
\* 10000; otherwise Medium if profit_percentage > 2 or avg_liquidity <
\* 50000; otherwise Low; avg_liquidity being the sum of both reserves over
\* the hops of the path divided by the number of hops.
C19_RiskLevel ==
    ret.fn = "assess_arbitrage_risk" =>
        ret.out = CASE arg.profit_percentage > 500 \/ AvgLiquidityBelow(10000) -> "High"
                    [] /\ ~(arg.profit_percentage > 500 \/ AvgLiquidityBelow(10000))
                       /\ (arg.profit_percentage > 200 \/ AvgLiquidityBelow(50000)) -> "Medium"
                    [] OTHER -> "Low"

\* A path of three hops with an average liquidity of exactly 10000 and a
\* profit of 2.01% was rated Medium: neither High test held, the first
\* Medium test did.
C19_Witness ==
    /\ ret.fn = "assess_arbitrage_risk"
    /\ Len(arg.reads) = 3
    /\ ReservesRead = 3 * 10000
    /\ arg.profit_percentage = 201
    /\ ret.out = "Medium"

\* C20: the list returned by find_arbitrage_opportunities is ordered by
\* non-increasing profit_percentage, and opportunities with equal
\* profit_percentage appear in the order in which their pairs (A, B) were
\* enumerated.
C20_SortedStable ==
    Scanned =>
        \A i, j \in DOMAIN ret.out.opportunities :
            i < j =>
                LET a == ret.out.opportunities[i]
                    b == ret.out.opportunities[j]
                IN /\ a.opportunity.profit_percentage >= b.opportunity.profit_percentage
                   /\ (a.opportunity.profit_percentage = b.opportunity.profit_percentage)
                          => a.found < b.found

\* A scan returned two opportunities of equal profit_percentage, in the
\* order they were found, behind two of a larger, equal profit_percentage
\* that were found after both of them.
C20_Witness ==
    /\ Scanned
    /\ Len(ret.out.opportunities) >= 4
    /\ LET o == ret.out.opportunities
       IN /\ o[1].opportunity.profit_percentage = o[2].opportunity.profit_percentage
          /\ o[2].opportunity.profit_percentage > o[3].opportunity.profit_percentage
          /\ o[3].opportunity.profit_percentage = o[4].opportunity.profit_percentage
          /\ o[1].found < o[2].found
          /\ o[3].found < o[4].found
          /\ o[1].found > o[4].found

\* ------------------------------------------------------- price history
\* record_price_history of AnalyticsService (analytics.rs 744-763) and of
\* PriceService (price.rs 375-394): the two bodies are the same.  The map is a
\* function on the tokens that have an entry, a VecDeque is a sequence with
\* its front at index 1.  The timestamp of a sample is the wall clock's and
\* takes no part in what the history keeps.

HistoryCap == 1000
MaxRecords == 1002
MaxOtherRecords == 2

HistoryTokens == {"T1", "T2"}

\* The calls the model makes per token: the first token is recorded past the
\* cap, the second one a few times beside it.
RecordLimit ==
    [t \in HistoryTokens |-> IF t = "T1" THEN MaxRecords ELSE MaxOtherRecords]

PriceSample(price, volume) == [price |-> price, volume |-> volume]

\* The variant that evicts as soon as the history reaches the cap.
record_price_history_at_cap(history, token, price, volume) ==
    LET entry  == IF token \in DOMAIN history THEN history[token] ELSE << >>
        pushed == Append(entry, PriceSample(price, volume))
        kept   == IF Len(pushed) >= HistoryCap THEN Tail(pushed) ELSE pushed
    IN  [t \in DOMAIN history \cup {token} |->
            IF t = token THEN kept ELSE history[t]]

\* entry(token).or_insert_with(VecDeque::new).push_back(sample), then
\* pop_front when the length exceeds 1000.
record_price_history(history, token, price, volume) ==
    LET entry  == IF token \in DOMAIN history THEN history[token] ELSE << >>
        pushed == Append(entry, PriceSample(price, volume))
        kept   == IF Len(pushed) > HistoryCap THEN Tail(pushed) ELSE pushed
    IN  [t \in DOMAIN history \cup {token} |->
            IF t = token THEN kept ELSE history[t]]

\* HashMap::new() of the constructors.
InitHistory ==
    /\ arg = << >>
    /\ ret = NoCall
    /\ price_history = << >>
    /\ recorded = [t \in HistoryTokens |-> 0]
    /\ ListenerAbsent
    /\ FarmAbsent
    /\ OrdersAbsent
    /\ CacheAbsent
    /\ ClockAbsent

\* The caller gives the k-th sample of a token the price k, so that a sample
\* in a history names the call that recorded it.
RecordPriceHistory ==
    \E token \in HistoryTokens :
        /\ recorded[token] < RecordLimit[token]
        /\ price_history' = record_price_history(price_history, token,
                                                 recorded[token] + 1, 1)
        /\ recorded' = [recorded EXCEPT ![token] = @ + 1]
        /\ ret' = Called("record_price_history", token)
        /\ UNCHANGED << arg, listener_vars, farm_vars, order_vars, cache_vars,
                        now >>

NextHistory == RecordPriceHistory

SpecHistory == InitHistory /\ [][NextHistory]_vars

HistoryOf(history, token) ==
    IF token \in DOMAIN history THEN history[token] ELSE << >>

\* The prices of the most recent min(n, 1000) of n samples, oldest first.
MostRecent(n) ==
    LET k == Min(n, HistoryCap) IN [i \in 1..k |-> n - k + i]

PricesOf(samples) == [i \in 1..Len(samples) |-> samples[i].price]

\* C21: after any sequence of record_price_history calls each token's history
\* holds at most 1000 samples, in insertion order, namely the most recent
\* min(n, 1000) of the n samples recorded for that token; and a call for one
\* token leaves the history of every other token as it was.
C21_MostRecentSamples ==
    /\ [](\A t \in HistoryTokens :
            /\ Len(HistoryOf(price_history, t)) <= HistoryCap
            /\ PricesOf(HistoryOf(price_history, t)) = MostRecent(recorded[t]))
    /\ [][\A t \in HistoryTokens :
            recorded'[t] = recorded[t] =>
                /\ (t \in DOMAIN price_history') = (t \in DOMAIN price_history)
                /\ HistoryOf(price_history', t) = HistoryOf(price_history, t)
         ]_vars

\* The first token has been recorded 1001 times, its first sample is gone,
\* and the second token holds its own sample.
C21_Witness ==
    /\ ret = Called("record_price_history", "T1")
    /\ recorded["T1"] = HistoryCap + 1
    /\ Len(price_history["T1"]) = HistoryCap
    /\ price_history["T1"][1].price = 2
    /\ recorded["T2"] = 1
    /\ PricesOf(price_history["T2"]) = << 1 >>

\* ------------------------------------------------------------------ RSI
\* cal_rsi of AnalyticsService (analytics.rs 852-876) and of PriceService
\* (price.rs 445-470): the two bodies are the same.  An f64 is a quotient of
\* integers, an infinity or NaN; the prices of the model are small integers,
\* whose sums and differences an f64 holds exactly.

MaxSamples == 4
MaxPeriod == 2
MaxPrice == 3

FNum(n, d) == [kind |-> "num", n |-> n, d |-> d]
FNaN == [kind |-> "nan"]
FInf(s) == [kind |-> "inf", s |-> s]

SignOf(n) == IF n < 0 THEN -1 ELSE 1

\* IEEE 754 division: 0/0 and inf/inf are NaN, x/0 is an infinity.
FDiv(a, b) ==
    IF a.kind = "nan" \/ b.kind = "nan" THEN FNaN
    ELSE IF a.kind = "inf"
         THEN IF b.kind = "inf" THEN FNaN ELSE FInf(a.s * SignOf(b.n))
    ELSE IF b.kind = "inf" THEN FNum(0, 1)
    ELSE IF b.n = 0
         THEN IF a.n = 0 THEN FNaN ELSE FInf(SignOf(a.n))
    ELSE FNum(a.n * b.d * SignOf(b.n), a.d * b.n * SignOf(b.n))

FNeg(a) ==
    CASE a.kind = "nan" -> FNaN
      [] a.kind = "inf" -> FInf(-a.s)
      [] OTHER          -> FNum(-a.n, a.d)

\* IEEE 754 addition: inf + (-inf) is NaN.
FAdd(a, b) ==
    IF a.kind = "nan" \/ b.kind = "nan" THEN FNaN
    ELSE IF a.kind = "inf"
         THEN IF b.kind = "inf" /\ b.s # a.s THEN FNaN ELSE a
    ELSE IF b.kind = "inf" THEN b
    ELSE FNum(a.n * b.d + b.n * a.d, a.d * b.d)

FSub(a, b) == FAdd(a, FNeg(b))

\* a == 0.0, which NaN never satisfies.
FIsZero(a) == a.kind = "num" /\ a.n = 0

RsiNone == [some |-> FALSE]
RsiSome(x) == [some |-> TRUE, value |-> x]

\* change of step i of the loop: history[i].price - history[i - 1].price,
\* where the deque's index 0 is the sequence's index 1.
PriceChange(h, i) == h[i + 1].price - h[i].price

RECURSIVE RsiGains(_, _)
\* gains after the steps 1..=period
RsiGains(h, period) ==
    IF period = 0 THEN 0
    ELSE RsiGains(h, period - 1)
         + (IF PriceChange(h, period) > 0 THEN PriceChange(h, period) ELSE 0)

RECURSIVE RsiLosses(_, _)
\* losses after the steps 1..=period
RsiLosses(h, period) ==
    IF period = 0 THEN 0
    ELSE RsiLosses(h, period - 1)
         - (IF PriceChange(h, period) > 0 THEN 0 ELSE PriceChange(h, period))

\* gains / period and losses / period are 0.0 / 0.0 when period is 0.
cal_rsi(history, token, period) ==
    IF token \notin DOMAIN history \/ Len(history[token]) <= period
    THEN RsiNone
    ELSE LET h        == history[token]
             avg_gain == FDiv(FNum(RsiGains(h, period), 1), FNum(period, 1))
             avg_loss == FDiv(FNum(RsiLosses(h, period), 1), FNum(period, 1))
             rs       == FDiv(avg_gain, avg_loss)
         IN  IF FIsZero(avg_loss)
             THEN RsiSome(FNum(100, 1))
             ELSE RsiSome(FSub(FNum(100, 1),
                               FDiv(FNum(100, 1), FAdd(FNum(1, 1), rs))))

RsiPrices == 1..MaxPrice

RECURSIVE SeqsUpTo(_, _)
\* the sequences over S of length 0..n
SeqsUpTo(S, n) ==
    IF n = 0 THEN {<< >>}
    ELSE LET shorter == SeqsUpTo(S, n - 1)
         IN  shorter \cup {Append(q, x) : q \in {r \in shorter : Len(r) = n - 1},
                                          x \in S}

\* The histories of token T1 that record_price_history can have built: up
\* to MaxSamples samples; token T2 was never recorded.
RsiHistories ==
    {<< >>} \cup
    {[t \in {"T1"} |-> [i \in 1..Len(q) |-> PriceSample(q[i], 1)]] :
        q \in SeqsUpTo(RsiPrices, MaxSamples) \ {<< >>}}

InitRsi ==
    /\ arg \in [token : HistoryTokens, period : 0..MaxPeriod]
    /\ ret = NoCall
    /\ price_history \in RsiHistories
    /\ recorded = [t \in HistoryTokens |->
                      Len(HistoryOf(price_history, t))]
    /\ ListenerAbsent
    /\ FarmAbsent
    /\ OrdersAbsent
    /\ CacheAbsent
    /\ ClockAbsent

CalRsi ==
    /\ ret = NoCall
    /\ ret' = Called("cal_rsi", cal_rsi(price_history, arg.token, arg.period))
    /\ UNCHANGED << arg, service_vars, listener_vars >>

NextRsi == CalRsi

SpecRsi == InitRsi /\ [][NextRsi]_vars

\* 0 <= x <= 100 for an f64 x; no comparison with NaN is true.
FInPercentRange(x) ==
    /\ x.kind = "num"
    /\ x.n * SignOf(x.d) >= 0
    /\ x.n * SignOf(x.d) <= 100 * x.d * SignOf(x.d)

FIsHundred(x) == x.kind = "num" /\ x.n = 100 * x.d

\* None of the deltas between the oldest period + 1 samples is negative.
NoNegativeDelta(h, period) ==
    \A i \in 1..period : h[i + 1].price - h[i].price >= 0

\* C22: cal_rsi(token, period) returns no value unless the token has more
\* than `period` samples; otherwise it returns exactly 100 when none of the
\* deltas between the oldest period + 1 samples is negative, and a value in
\* [0, 100] in every other case.
C22_RsiRange ==
    ret.fn = "cal_rsi" =>
        LET h == HistoryOf(price_history, arg.token)
        IN  IF Len(h) <= arg.period
            THEN ~ret.out.some
            ELSE /\ ret.out.some
                 /\ IF NoNegativeDelta(h, arg.period)
                    THEN FIsHundred(ret.out.value)
                    ELSE FInPercentRange(ret.out.value)

\* ---------------------------------------------------- batch pool gather
\* FarmingService::get_pools_info (farm.rs 488-509): one tokio task per pool
\* address, spawned in input order, then awaited in input order.  A task runs
\* get_syrup_pool_info on a service of its own and ends with Ok(info), with
\* Err(e) or by panicking, at any time after it was spawned.

MaxPools == 3

PoolAddresses == {"P1", "P2"}

PoolInputs == SeqsUpTo(PoolAddresses, MaxPools)

TaskOutcomes == {"ok", "err", "panic"}

\* What get_syrup_pool_info returns for the i-th address of the input.
PoolInfo(i, pool_address) == [pool |-> pool_address, item |-> i]

\* The variant that takes a panicked task for a success.
JoinOutcomePanicPushes(syrup_pools, i, task) ==
    IF task.state \in {"ok", "panic"}
    THEN Append(syrup_pools, PoolInfo(i, task.pool_address))
    ELSE syrup_pools

\* match task.await: Ok(Ok(pool_info)) is pushed, Ok(Err(e)) and the
\* JoinError of a panicked task are printed.
JoinOutcome(syrup_pools, i, task) ==
    IF task.state = "ok"
    THEN Append(syrup_pools, PoolInfo(i, task.pool_address))
    ELSE syrup_pools

InitGather ==
    /\ arg \in PoolInputs
    /\ ret = NoCall
    /\ pool_tasks = << >>
    /\ gather = [pc |-> "spawn", syrup_pools |-> << >>, joined |-> 0]
    /\ ListenerAbsent
    /\ HistoryAbsent
    /\ OrdersAbsent
    /\ CacheAbsent
    /\ ClockAbsent

\* for pool_address in pool_addresses: tokio::spawn and tasks.push
GatherSpawn ==
    /\ gather.pc = "spawn"
    /\ Len(pool_tasks) < Len(arg)
    /\ pool_tasks' = Append(pool_tasks,
                            [pool_address |-> arg[Len(pool_tasks) + 1],
                             state |-> "running"])
    /\ UNCHANGED << arg, ret, gather, listener_vars, history_vars,
                    order_vars, cache_vars, now >>

\* the first loop is over
GatherSpawned ==
    /\ gather.pc = "spawn"
    /\ Len(pool_tasks) = Len(arg)
    /\ gather' = [gather EXCEPT !.pc = "join"]
    /\ UNCHANGED << arg, ret, pool_tasks, listener_vars, history_vars,
                    order_vars, cache_vars, now >>

\* A spawned task ends, on the runtime's schedule.
PoolTaskEnds ==
    \E i \in 1..MaxPools, outcome \in TaskOutcomes :
        /\ i <= Len(pool_tasks)
        /\ pool_tasks[i].state = "running"
        /\ pool_tasks' = [pool_tasks EXCEPT ![i].state = outcome]
        /\ UNCHANGED << arg, ret, gather, listener_vars, history_vars,
                    order_vars, cache_vars, now >>

\* task.await of the next task in input order, once that task has ended
GatherJoin ==
    /\ gather.pc = "join"
    /\ gather.joined < Len(pool_tasks)
    /\ pool_tasks[gather.joined + 1].state # "running"
    /\ gather' = [gather EXCEPT
                    !.joined = @ + 1,
                    !.syrup_pools = JoinOutcome(@, gather.joined + 1,
                                                pool_tasks[gather.joined + 1])]
    /\ UNCHANGED << arg, ret, pool_tasks, listener_vars, history_vars,
                    order_vars, cache_vars, now >>

\* the second loop is over: syrup_pools is returned
GatherReturn ==
    /\ gather.pc = "join"
    /\ gather.joined = Len(pool_tasks)
    /\ gather' = [gather EXCEPT !.pc = "returned"]
    /\ ret' = Called("get_pools_info", gather.syrup_pools)
    /\ UNCHANGED << arg, pool_tasks, listener_vars, history_vars,
                    order_vars, cache_vars, now >>

NextGather ==
    \/ GatherSpawn
    \/ GatherSpawned
    \/ PoolTaskEnds
    \/ GatherJoin
    \/ GatherReturn

SpecGather == InitGather /\ [][NextGather]_vars

RECURSIVE SucceededPools(_)
\* The items of the first n tasks that ended with Ok, in input order.
SucceededPools(n) ==
    IF n = 0 THEN << >>
    ELSE IF pool_tasks[n].state = "ok"
         THEN Append(SucceededPools(n - 1), PoolInfo(n, arg[n]))
         ELSE SucceededPools(n - 1)

\* C23: get_pools_info starts one task per pool address and joins them all;
\* what it returns is exactly the items whose task succeeded, in input order
\* (a task that fails or panics removes its own item only), and the call
\* itself returns: no outcome of a task makes it fail.
C23_GatherJoinsAll ==
    /\ Len(pool_tasks) <= Len(arg)
    /\ \A i \in 1..Len(pool_tasks) : pool_tasks[i].pool_address = arg[i]
    /\ gather.pc # "spawn" => Len(pool_tasks) = Len(arg)
    /\ ret.fn = "get_pools_info" =>
        /\ \A i \in 1..Len(arg) : pool_tasks[i].state # "running"
        /\ ret.out = SucceededPools(Len(arg))
    /\ (gather.pc = "join" /\ \A i \in 1..Len(pool_tasks) :
                                  pool_tasks[i].state # "running")
           => ENABLED (GatherJoin \/ GatherReturn)

\* Three pools, the first task panicked, the second failed, the third
\* succeeded: the call returned the third item alone.
C23_Witness ==
    /\ ret.fn = "get_pools_info"
    /\ Len(arg) = 3
    /\ pool_tasks[1].state = "panic"
    /\ pool_tasks[2].state = "err"
    /\ pool_tasks[3].state = "ok"
    /\ ret.out = << PoolInfo(3, arg[3]) >>

\* ------------------------------------------------------ the poll window
\* A task that is fetching the logs of a window or is about to store it.
Fetching(t) == tasks[t].pc \in {"logs", "store"}

\* The window of the claim, in unbounded integers.
WindowTo(from, cur) ==
    Min(cur - config.confirmation_blocks,
        from + config.max_blocks_per_poll - 1)

\* C24: every poll that fetches logs uses the window from = checkpoint + 1,
\* to = min(height - confirmation_blocks, from + max_blocks_per_poll - 1), so
\* the window never spans more than max_blocks_per_poll blocks, and on success
\* the checkpoint becomes exactly `to`.
C24_PollWindow ==
    /\ [](\A t \in 1..Len(tasks) :
            Fetching(t) =>
                /\ tasks[t].to = WindowTo(tasks[t].from, tasks[t].cur)
                /\ tasks[t].to - tasks[t].from + 1 <= config.max_blocks_per_poll)
    /\ [][\A t \in 1..Len(tasks) :
            /\ (tasks[t].pc = "load" /\ tasks'[t].pc = "height")
                   => tasks'[t].from = last_block_number + 1
            /\ (tasks[t].pc = "store" /\ tasks'[t].pc # "store")
                   => last_block_number' = tasks[t].to
         ]_vars

StartFails(c) ==
    /\ callers[c].pc = "height"
    /\ callers'[c].pc = "idle"
    /\ start_result' = "provider_error"

\* C26: when start_listener fails because the chain height cannot be read,
\* the listener is left Idle: the running flag is false, no background task
\* exists, and a later start_listener can succeed (it passes the is_running
\* test of StartLoad exactly when the flag is false).  The failing call is
\* the only one in progress on a listener without live tasks.
C26_FailedStartLeavesIdle ==
    [][\A c \in Callers :
          (StartFails(c) /\ StartsInFlight = {c} /\ AliveTasks = {})
              => /\ ~is_running'
                 /\ AliveTasks' = {}
      ]_vars

\* ------------------------------------------------ unsigned block arithmetic
\* C27: the block arithmetic of start and poll never leaves u64 below zero:
\* when the height read is smaller than confirmation_blocks, start_listener
\* neither panics nor sets a cursor beyond the tip, and a poll neither panics
\* nor fetches: it is a no-op that leaves the checkpoint unchanged.
C27_NoUnderflow ==
    [][/\ \A c \in Callers :
            (callers[c].pc = "spawn" /\ callers'[c].pc = "idle")
                => /\ start_result' # "panic"
                   /\ last_block_number' <= callers[c].cur
       /\ \A t \in 1..Len(tasks) :
            (/\ tasks[t].pc = "height"
             /\ tasks'[t].pc # "height"
             /\ height < config.confirmation_blocks)
                => /\ tasks'[t].pc \notin {"panicked", "logs"}
                   /\ last_block_number' = last_block_number
      ]_vars

\* ----------------------------------------------------------- the clock
\* SystemTime::now() advances in ticks; duration_since(UNIX_EPOCH).as_secs()
\* is what the services read from it: whole seconds, rounded down.
TicksPerSecond == 2
MaxClock == 6

as_secs(t) == t \div TicksPerSecond

\* The clock never goes backwards.
ClockTick ==
    /\ now < MaxClock
    /\ now' = now + 1
    /\ UNCHANGED << arg, ret, listener_vars, history_vars, farm_vars,
                    order_vars, cache_vars >>

\* --------------------------------------------------------- limit orders
\* LimitOrderService (limit_order.rs).  An order is created from its
\* parameters (token_in, token_out, amount_in, limit_price); its id is the
\* keccak256 hash of their formatted text (limit_order.rs 105-107), taken to
\* be free of collisions: equal parameters, and only they, give equal ids.

MaxExpiryMinutes == 1

OrderParams == {"O1", "O2"}

order_id(params) == << "keccak256", params >>

\* The ids a caller may pass: those of the orders above and one that no
\* create_limit_order call ever returned.
OrderIds == {order_id(p) : p \in OrderParams \cup {"O3"}}

OrderOk(orders, value) ==
    [orders |-> orders, out |-> [kind |-> "ok", value |-> value]]
OrderErr(orders, msg) ==
    [orders |-> orders, out |-> [kind |-> "err", msg |-> msg]]

\* create_limit_order (86-134).  quote is what the price lookup gave: "err"
\* (get_current_price failed), "at_limit" (current_price >= limit_price) or
\* "below".  calculate_amount_out_min and start_order_monitoring return Ok:
\* the task spawned by the latter panics on its own (todo!()).
create_limit_order(orders, params, expiry_minutes, quote, t) ==
    IF quote = "err" THEN OrderErr(orders, "price lookup failed")
    ELSE IF quote = "at_limit"
    THEN OrderErr(orders, "Current price is already better than limit price")
    ELSE LET id    == order_id(params)
             order == [status     |-> "Pending",
                       created_at |-> as_secs(t),
                       expiry     |-> as_secs(t) + expiry_minutes * 60,
                       tx_hash    |-> "none"]
         IN  OrderOk([i \in DOMAIN orders \cup {id} |->
                         IF i = id THEN order ELSE orders[i]], id)

\* execute_limit_order (192-225); swap_ok tells whether
\* swap_exact_tokens_for_tokens returned a transaction hash.
execute_limit_order(orders, id, swap_ok, t) ==
    IF id \notin DOMAIN orders THEN OrderErr(orders, "Order not found")
    ELSE IF orders[id].status # "Pending"
    THEN OrderErr(orders, "Order is not pending")
    ELSE IF as_secs(t) > orders[id].expiry
    THEN OrderErr(orders, "Order has expired")
    ELSE IF ~swap_ok THEN OrderErr(orders, "swap failed")
    ELSE OrderOk([orders EXCEPT ![id].status = "Filled",
                                ![id].tx_hash = "tx"], "tx")

\* cancel_limit_order (243-256)
cancel_limit_order(orders, id) ==
    IF id \in DOMAIN orders
    THEN IF orders[id].status = "Pending"
         THEN OrderOk([orders EXCEPT ![id].status = "Cancelled"], "unit")
         ELSE OrderErr(orders, "Cannot cancel non-pending order")
    ELSE OrderErr(orders, "Order not found")

\* get_pending_orders (269-274), as ids
PendingIds(orders) == {i \in DOMAIN orders : orders[i].status = "Pending"}

\* The orders in which the values of a HashMap over ids may be iterated.
IterationOrders(ids) ==
    {q \in SeqsUpTo(ids, Cardinality(ids)) :
        Len(q) = Cardinality(ids) /\ {q[i] : i \in 1..Len(q)} = ids}

CheckOutcomes == {"price_err", "hold", "swap_ok", "swap_err"}

RECURSIVE CheckLoop(_, _, _, _, _)
\* The loop of check_and_execute_orders (298-306) over the ids still to
\* visit: an error of should_execute_order ends the call (`?`), an order
\* below its limit is left alone, and an error of execute_limit_order is
\* printed.
CheckLoop(orders, visit, outcome, executed, t) ==
    IF visit = << >> THEN OrderOk(orders, executed)
    ELSE LET id == Head(visit)
             r  == execute_limit_order(orders, id, outcome[id] = "swap_ok", t)
         IN  CASE outcome[id] = "price_err" ->
                    OrderErr(orders, "price lookup failed")
               [] outcome[id] = "hold" ->
                    CheckLoop(orders, Tail(visit), outcome, executed, t)
               [] OTHER ->
                    CheckLoop(r.orders, Tail(visit), outcome,
                              IF r.out.kind = "ok"
                              THEN Append(executed, r.out.value)
                              ELSE executed, t)

\* check_and_execute_orders (292-308)
check_and_execute_orders(orders, visit, outcome, t) ==
    CheckLoop(orders, visit, outcome, << >>, t)

\* LimitOrderService::new (43-48)
InitOrders ==
    /\ arg = << >>
    /\ ret = NoCall
    /\ pending_orders = << >>
    /\ now = 0
    /\ ListenerAbsent
    /\ HistoryAbsent
    /\ FarmAbsent
    /\ CacheAbsent

\* What ret holds after a call on the service.
OrderCall(fn, input, r) ==
    Called(fn, [input |-> input, kind |-> r.out.kind, out |-> r.out])

\* What a call on the service leaves alone.
OrderCallUnchanged ==
    UNCHANGED << arg, now, listener_vars, history_vars, farm_vars, cache_vars >>

CreateLimitOrder(params, expiry_minutes, quote) ==
    /\ LET r == create_limit_order(pending_orders, params, expiry_minutes,
                                   quote, now)
       IN  /\ pending_orders' = r.orders
           /\ ret' = OrderCall("create_limit_order", order_id(params), r)
    /\ OrderCallUnchanged

ExecuteLimitOrder(id, swap_ok) ==
    /\ LET r == execute_limit_order(pending_orders, id, swap_ok, now)
       IN  /\ pending_orders' = r.orders
           /\ ret' = OrderCall("execute_limit_order", id, r)
    /\ OrderCallUnchanged

CancelLimitOrder(id) ==
    /\ LET r == cancel_limit_order(pending_orders, id)
       IN  /\ pending_orders' = r.orders
           /\ ret' = OrderCall("cancel_limit_order", id, r)
    /\ OrderCallUnchanged

CheckAndExecuteOrders ==
    /\ \E visit \in IterationOrders(PendingIds(pending_orders)),
          outcome \in [PendingIds(pending_orders) -> CheckOutcomes] :
           LET r == check_and_execute_orders(pending_orders, visit, outcome,
                                             now)
           IN  /\ pending_orders' = r.orders
               /\ ret' = OrderCall("check_and_execute_orders", visit, r)
    /\ OrderCallUnchanged

NextOrders ==
    \/ \E p \in OrderParams, m \in 0..MaxExpiryMinutes,
          quote \in {"err", "at_limit", "below"} : CreateLimitOrder(p, m, quote)
    \/ \E id \in OrderIds, swap_ok \in BOOLEAN : ExecuteLimitOrder(id, swap_ok)
    \/ \E id \in OrderIds : CancelLimitOrder(id)
    \/ CheckAndExecuteOrders
    \/ ClockTick

SpecOrders == InitOrders /\ [][NextOrders]_vars

IsPending(orders, id) == id \in DOMAIN orders /\ orders[id].status = "Pending"

\* C28: an order whose status is Filled or Cancelled never changes status
\* again, whatever sequence of create_limit_order, execute_limit_order,
\* cancel_limit_order and check_and_execute_orders follows; and cancel and
\* execute on an order that is not pending, or is unknown, return an error
\* and leave every order unchanged.
C28_TerminalOrdersFrozen ==
    [][/\ \A id \in DOMAIN pending_orders :
            pending_orders[id].status \in {"Filled", "Cancelled"}
                => /\ id \in DOMAIN pending_orders'
                   /\ pending_orders'[id].status = pending_orders[id].status
       /\ \A id \in OrderIds :
            (/\ ~IsPending(pending_orders, id)
             /\ \/ CancelLimitOrder(id)
                \/ \E swap_ok \in BOOLEAN : ExecuteLimitOrder(id, swap_ok))
                => /\ ret'.out.kind = "err"
                   /\ pending_orders' = pending_orders
      ]_vars

\* ---------------------------------------------------------- price cache
\* PriceCache (price.rs 551-596): a map from (token_in, token_out) to
\* (price, timestamp), the timestamp being the clock in whole seconds.

MaxTtl == 2

CachePairs == {<< "A", "B" >>, << "B", "A" >>}
CachePrices == {1, 2}

CacheNone == [some |-> FALSE]
CacheSome(price) == [some |-> TRUE, price |-> price]

\* The variant that still returns an entry whose age equals the ttl.
get_at_ttl(c, ttl_, key, t) ==
    IF key \notin DOMAIN c THEN CacheNone
    ELSE IF as_secs(t) - c[key].timestamp <= ttl_
         THEN CacheSome(c[key].price)
         ELSE CacheNone

\* get (564-578) at clock t: current_time - timestamp < self.ttl
get(c, ttl_, key, t) ==
    IF key \notin DOMAIN c THEN CacheNone
    ELSE IF as_secs(t) - c[key].timestamp < ttl_
         THEN CacheSome(c[key].price)
         ELSE CacheNone

\* set (580-586) at clock t
set(c, key, price, t) ==
    [k \in DOMAIN c \cup {key} |->
        IF k = key THEN [price |-> price, timestamp |-> as_secs(t)] ELSE c[k]]

\* clear_expired (588-595) at clock t: retain the entries younger than ttl
clear_expired(c, ttl_, t) ==
    [k \in {j \in DOMAIN c : as_secs(t) - c[j].timestamp < ttl_} |-> c[k]]

\* PriceCache::new(ttl) (557-562)
InitCache ==
    /\ arg = << >>
    /\ ret = NoCall
    /\ cache = << >>
    /\ ttl \in 0..MaxTtl
    /\ latest_set = << >>
    /\ now = 0
    /\ ListenerAbsent
    /\ HistoryAbsent
    /\ FarmAbsent
    /\ OrdersAbsent

\* What a call on the cache leaves alone, besides the cache itself.
CacheCallUnchanged ==
    UNCHANGED << arg, ttl, now, listener_vars, history_vars, farm_vars,
                 order_vars >>

CacheGet(key) ==
    /\ ret' = Called("get", [key |-> key, out |-> get(cache, ttl, key, now)])
    /\ UNCHANGED << cache, latest_set >>
    /\ CacheCallUnchanged

CacheSet(key, price) ==
    /\ cache' = set(cache, key, price, now)
    /\ latest_set' = [k \in DOMAIN latest_set \cup {key} |->
                         IF k = key THEN [price |-> price, tick |-> now]
                         ELSE latest_set[k]]
    /\ ret' = Called("set", [key |-> key, price |-> price])
    /\ CacheCallUnchanged

CacheClearExpired ==
    /\ cache' = clear_expired(cache, ttl, now)
    /\ ret' = Called("clear_expired", << >>)
    /\ UNCHANGED latest_set
    /\ CacheCallUnchanged

NextCache ==
    \/ \E key \in CachePairs : CacheGet(key)
    \/ \E key \in CachePairs, price \in CachePrices : CacheSet(key, price)
    \/ CacheClearExpired
    \/ ClockTick

SpecCache == InitCache /\ [][NextCache]_vars

\* What get(key) has to return when `fresh` tells whether the latest set of
\* the key is recent enough.
ExpectedGet(key, fresh) ==
    IF key \in DOMAIN latest_set /\ fresh
    THEN CacheSome(latest_set[key].price)
    ELSE CacheNone

\* get does not modify the cache; clear_expired removes exactly the entries
\* for which get returns nothing, and changes the result of no get.
CacheCallsKeepResults ==
    /\ \A key \in CachePairs : CacheGet(key) => cache' = cache
    /\ CacheClearExpired =>
          \A key \in CachePairs :
             /\ (key \in DOMAIN cache') =
                    (key \in DOMAIN cache /\ get(cache, ttl, key, now).some)
             /\ get(cache', ttl, key, now') = get(cache, ttl, key, now)

\* C29 as stated: with a clock that never goes backwards, get(a, b) returns
\* the price of the latest set(a, b) if and only if that set happened less
\* than ttl seconds ago, and nothing otherwise; get never modifies the cache
\* and clear_expired never changes the result of a get.
C29_FreshWithinTtl ==
    /\ [](\A key \in CachePairs :
            get(cache, ttl, key, now) =
                ExpectedGet(key, key \in DOMAIN latest_set
                                 /\ now - latest_set[key].tick
                                        < ttl * TicksPerSecond))
    /\ [][CacheCallsKeepResults]_vars

\* C29, amended: get(a, b) returns the price of the latest set(a, b) if and
\* only if the clock's whole second at the get is less than ttl past the
\* clock's whole second at that set, and nothing otherwise; get never
\* modifies the cache and clear_expired never changes the result of a get.
C29_FreshWithinTtlWholeSeconds ==
    /\ [](\A key \in CachePairs :
            get(cache, ttl, key, now) =
                ExpectedGet(key, key \in DOMAIN latest_set
                                 /\ as_secs(now) - as_secs(latest_set[key].tick)
                                        < ttl))
    /\ [][CacheCallsKeepResults]_vars

\* A get of a pair whose latest set is exactly ttl whole seconds old returned
\* nothing, after clear_expired had removed it, while the other pair, set
\* later, is still served.
C29_Witness ==
    /\ ret.fn = "get"
    /\ ret.out.key = << "A", "B" >>
    /\ ~ret.out.out.some
    /\ ttl >= 1
    /\ << "A", "B" >> \in DOMAIN latest_set
    /\ << "A", "B" >> \notin DOMAIN cache
    /\ as_secs(now) - as_secs(latest_set[<< "A", "B" >>].tick) = ttl
    /\ << "B", "A" >> \in DOMAIN cache
    /\ get(cache, ttl, << "B", "A" >>, now).some

\* ------------------------------------------------ amount-in round trip
\* math_utils::calculate_amount_in (tool.rs 231-254) and its round trip
\* through calculate_amount_out.  The amounts stay far below 2^256.

MaxReserve == 10

\* An amount_in far larger than the reserves.
LargeAmountIn == 1000 * MaxReserve

\* The variant that does not round the quotient up.
calculate_amount_in_floor(amount_out, reserve_in, reserve_out) ==
    IF amount_out = 0 THEN QuoteOk(0)
    ELSE IF reserve_in = 0 \/ reserve_out = 0
         THEN QuoteErr("Reserves cannot be zero")
    ELSE IF amount_out >= reserve_out
         THEN QuoteErr("Insufficient reserve out")
    ELSE LET numerator   == reserve_in * amount_out * 1000
             denominator == (reserve_out - amount_out) * 997
         IN  IF denominator = 0 THEN QuoteErr("Denominator is zero")
             ELSE QuoteOk(numerator \div denominator)

calculate_amount_in(amount_out, reserve_in, reserve_out) ==
    IF amount_out = 0 THEN QuoteOk(0)
    ELSE IF reserve_in = 0 \/ reserve_out = 0
         THEN QuoteErr("Reserves cannot be zero")
    ELSE IF amount_out >= reserve_out
         THEN QuoteErr("Insufficient reserve out")
    ELSE LET numerator   == reserve_in * amount_out * 1000
             denominator == (reserve_out - amount_out) * 997
         IN  IF denominator = 0 THEN QuoteErr("Denominator is zero")
             ELSE QuoteOk((numerator \div denominator) + 1)

RoundTripArgs ==
    [amount_out  : 0..MaxReserve,
     amount_in   : 0..MaxReserve \cup {LargeAmountIn},
     reserve_in  : 0..MaxReserve,
     reserve_out : 0..MaxReserve]

InitRoundTrip ==
    /\ arg \in RoundTripArgs
    /\ ret = NoCall
    /\ ListenerAbsent
    /\ ServicesAbsent

CalculateAmountIn ==
    /\ ret = NoCall
    /\ ret' = Called("calculate_amount_in",
                     calculate_amount_in(arg.amount_out, arg.reserve_in,
                                         arg.reserve_out))
    /\ UNCHANGED << arg, service_vars, listener_vars >>

\* calculate_amount_out on the amount that calculate_amount_in returned
CalculateAmountOutOfIn ==
    /\ ret.fn = "calculate_amount_in"
    /\ ret.out.kind = "ok"
    /\ ret' = Called("calculate_amount_out",
                     [of     |-> "amount_in",
                      quoted |-> calculate_amount_out(ret.out.value,
                                                      arg.reserve_in,
                                                      arg.reserve_out)])
    /\ UNCHANGED << arg, service_vars, listener_vars >>

\* calculate_amount_out on an amount_in of the caller's
CalculateAmountOutOfArg ==
    /\ ret = NoCall
    /\ ret' = Called("calculate_amount_out",
                     [of     |-> "arg",
                      quoted |-> calculate_amount_out(arg.amount_in,
                                                      arg.reserve_in,
                                                      arg.reserve_out)])
    /\ UNCHANGED << arg, service_vars, listener_vars >>

NextRoundTrip ==
    \/ CalculateAmountIn
    \/ CalculateAmountOutOfIn
    \/ CalculateAmountOutOfArg

SpecRoundTrip == InitRoundTrip /\ [][NextRoundTrip]_vars

\* C30: for all non-zero reserves and every amount_out with
\* 0 < amount_out < reserve_out, calculate_amount_in returns an amount whose
\* quote calculate_amount_out(amount_in, Rin, Rout) is at least amount_out;
\* and for non-zero reserves calculate_amount_out is strictly less than
\* reserve_out.
C30_RoundTripCoversAmountOut ==
    (arg.reserve_in # 0 /\ arg.reserve_out # 0) =>
        /\ (/\ ret.fn = "calculate_amount_in"
            /\ 0 < arg.amount_out
            /\ arg.amount_out < arg.reserve_out)
               => ret.out.kind = "ok"
        /\ (/\ ret.fn = "calculate_amount_out"
            /\ ret.out.of = "amount_in"
            /\ 0 < arg.amount_out)
               => /\ ret.out.quoted.kind = "ok"
                  /\ ret.out.quoted.value >= arg.amount_out
        /\ ret.fn = "calculate_amount_out"
               => /\ ret.out.quoted.kind = "ok"
                  /\ ret.out.quoted.value < arg.reserve_out

\* The round trip of amount_out = 5 on reserves of 10 and 10 went through
\* amount_in = 11 and quoted 5 again.
C30_Witness ==
    /\ ret.fn = "calculate_amount_out"
    /\ ret.out.of = "amount_in"
    /\ arg.amount_out = 5
    /\ arg.reserve_in = 10
    /\ arg.reserve_out = 10
    /\ calculate_amount_in(5, 10, 10) = QuoteOk(11)
    /\ ret.out.quoted = QuoteOk(5)

====
